---------------------------- MODULE Spec2Model ----------------------------
(***************************************************************************)
(* State-machine model of the GC2145 CMOS image sensor driver (gc2145.c):  *)
(* register transport and register programs, the pixel-format and mode     *)
(* catalogs, format negotiation (get_fmt / set_fmt), the power sequencer   *)
(* (s_power), the flip controls and chip identification at probe.          *)
(*                                                                         *)
(* Every subdev operation is one action.  The effects an operation has on  *)
(* the outside world (bus accesses, GPIO edges, delays) are recorded, in   *)
(* program order, in the variable trace, which holds the events of the     *)
(* most recent operation; the variable last holds its arguments and result.*)
(***************************************************************************)
EXTENDS Integers, Sequences, FiniteSets, TLC

(***************************************************************************)
(* Register map and identifiers (gc2145.c:87-113)                          *)
(***************************************************************************)
GC2145_CHIP_ID == 8517

GC2145_REG_OUTPUT_FORMAT == 132

GC2145_REG_CHIP_ID_H == 240

GC2145_REG_CHIP_ID_L == 241

GC2145_REG_PAGE_SELECT == 254

GC2145_REG_NULL == 255

GC2145_REG_FLIP == 23

(* errno values returned by the driver (as -EINVAL, -ENXIO, ...) *)
EINVAL == 22

ENXIO == 6

(* the error a failing i2c_transfer() hands back through write_reg/read_reg *)
EREMOTEIO == 121

(***************************************************************************)
(* Byte arithmetic                                                         *)
(***************************************************************************)
Byte == 0..255

Bit(v, k) == (v \div (2^k)) % 2

(* v | (1 << k) on a byte *)
OrBit(v, k) == IF Bit(v, k) = 1 THEN v ELSE v + 2^k

(* v & ~(1 << k) on a byte *)
ClearBit(v, k) == IF Bit(v, k) = 1 THEN v - 2^k ELSE v

(***************************************************************************)
(* Register programs (gc2145.c:120-1121)                                   *)
(* A program is a sequence of <<addr, val>> rows.                          *)
(***************************************************************************)
gc2145_init_regs ==
  <<
    <<254,240>>, <<254,240>>, <<254,240>>, <<252,6>>, <<246,0>>, <<247,29>>, <<248,131>>, <<250,0>>, <<249,254>>, <<242,0>>,
    <<254,0>>, <<3,4>>, <<4,226>>, <<9,0>>, <<10,0>>, <<11,0>>, <<12,0>>, <<13,4>>, <<14,192>>, <<15,6>>,
    <<16,82>>, <<18,46>>, <<23,23>>, <<24,34>>, <<25,14>>, <<26,1>>, <<27,75>>, <<28,7>>, <<29,16>>, <<30,136>>,
    <<31,120>>, <<32,3>>, <<33,64>>, <<34,160>>, <<36,22>>, <<37,1>>, <<38,16>>, <<45,96>>, <<48,1>>, <<49,144>>,
    <<51,6>>, <<52,1>>, <<254,0>>, <<128,127>>, <<129,38>>, <<130,250>>, <<131,0>>, <<132,2>>, <<134,3>>, <<136,3>>,
    <<137,3>>, <<133,8>>, <<138,0>>, <<139,0>>, <<176,85>>, <<195,0>>, <<196,128>>, <<197,144>>, <<198,59>>, <<199,70>>,
    <<236,6>>, <<237,4>>, <<238,96>>, <<239,144>>, <<182,1>>, <<144,1>>, <<145,0>>, <<146,0>>, <<147,0>>, <<148,0>>,
    <<149,4>>, <<150,176>>, <<151,6>>, <<152,64>>, <<254,0>>, <<64,66>>, <<65,0>>, <<67,91>>, <<94,0>>, <<95,0>>,
    <<96,0>>, <<97,0>>, <<98,0>>, <<99,0>>, <<100,0>>, <<101,0>>, <<102,32>>, <<103,32>>, <<104,32>>, <<105,32>>,
    <<118,0>>, <<106,8>>, <<107,8>>, <<108,8>>, <<109,8>>, <<110,8>>, <<111,8>>, <<112,8>>, <<113,8>>, <<118,0>>,
    <<114,240>>, <<126,60>>, <<127,0>>, <<254,2>>, <<72,21>>, <<73,0>>, <<75,11>>, <<254,0>>, <<254,1>>, <<1,4>>,
    <<2,192>>, <<3,4>>, <<4,144>>, <<5,48>>, <<6,144>>, <<7,48>>, <<8,128>>, <<9,0>>, <<10,130>>, <<11,17>>,
    <<12,16>>, <<17,16>>, <<19,123>>, <<23,0>>, <<28,17>>, <<30,97>>, <<31,53>>, <<32,64>>, <<34,64>>, <<35,32>>,
    <<254,2>>, <<15,4>>, <<254,1>>, <<18,53>>, <<21,176>>, <<16,49>>, <<62,40>>, <<63,176>>, <<64,144>>, <<65,15>>,
    <<254,2>>, <<144,108>>, <<145,3>>, <<146,203>>, <<148,51>>, <<149,132>>, <<151,101>>, <<162,17>>, <<254,0>>, <<254,2>>,
    <<128,193>>, <<129,8>>, <<130,5>>, <<131,8>>, <<132,10>>, <<134,240>>, <<135,80>>, <<136,21>>, <<137,176>>, <<138,48>>,
    <<139,16>>, <<254,1>>, <<33,4>>, <<254,2>>, <<163,80>>, <<164,32>>, <<165,64>>, <<166,128>>, <<171,64>>, <<174,12>>,
    <<179,70>>, <<180,100>>, <<182,56>>, <<183,1>>, <<185,43>>, <<60,4>>, <<61,21>>, <<75,6>>, <<76,32>>, <<254,0>>,
    <<254,2>>, <<16,9>>, <<17,13>>, <<18,19>>, <<19,25>>, <<20,39>>, <<21,55>>, <<22,69>>, <<23,83>>, <<24,105>>,
    <<25,125>>, <<26,143>>, <<27,157>>, <<28,169>>, <<29,189>>, <<30,205>>, <<31,217>>, <<32,227>>, <<33,234>>, <<34,239>>,
    <<35,245>>, <<36,249>>, <<37,255>>, <<254,2>>, <<16,10>>, <<17,18>>, <<18,25>>, <<19,31>>, <<20,44>>, <<21,56>>,
    <<22,66>>, <<23,78>>, <<24,99>>, <<25,118>>, <<26,135>>, <<27,150>>, <<28,162>>, <<29,184>>, <<30,203>>, <<31,216>>,
    <<32,226>>, <<33,233>>, <<34,240>>, <<35,248>>, <<36,253>>, <<37,255>>, <<254,0>>, <<254,0>>, <<198,32>>, <<199,43>>,
    <<254,2>>, <<38,15>>, <<39,20>>, <<40,25>>, <<41,30>>, <<42,39>>, <<43,51>>, <<44,59>>, <<45,69>>, <<46,89>>,
    <<47,105>>, <<48,124>>, <<49,137>>, <<50,152>>, <<51,174>>, <<52,192>>, <<53,207>>, <<54,218>>, <<55,226>>, <<56,233>>,
    <<57,243>>, <<58,249>>, <<59,255>>, <<254,2>>, <<38,23>>, <<39,24>>, <<40,28>>, <<41,32>>, <<42,40>>, <<43,52>>,
    <<44,64>>, <<45,73>>, <<46,91>>, <<47,109>>, <<48,125>>, <<49,137>>, <<50,151>>, <<51,172>>, <<52,192>>, <<53,207>>,
    <<54,218>>, <<55,229>>, <<56,236>>, <<57,248>>, <<58,253>>, <<59,255>>, <<254,2>>, <<209,50>>, <<210,50>>, <<211,64>>,
    <<214,240>>, <<215,16>>, <<216,218>>, <<221,20>>, <<222,134>>, <<237,128>>, <<238,0>>, <<239,63>>, <<216,216>>, <<254,1>>,
    <<159,64>>, <<254,1>>, <<194,20>>, <<195,13>>, <<196,12>>, <<200,21>>, <<201,13>>, <<202,10>>, <<188,36>>, <<189,16>>,
    <<190,11>>, <<182,37>>, <<183,22>>, <<184,21>>, <<197,0>>, <<198,0>>, <<199,0>>, <<203,0>>, <<204,0>>, <<205,0>>,
    <<191,7>>, <<192,0>>, <<193,0>>, <<185,0>>, <<186,0>>, <<187,0>>, <<170,1>>, <<171,1>>, <<172,0>>, <<173,5>>,
    <<174,6>>, <<175,14>>, <<176,11>>, <<177,7>>, <<178,6>>, <<179,23>>, <<180,14>>, <<181,14>>, <<208,9>>, <<209,0>>,
    <<210,0>>, <<214,8>>, <<215,0>>, <<216,0>>, <<217,0>>, <<218,0>>, <<219,0>>, <<211,10>>, <<212,0>>, <<213,0>>,
    <<164,0>>, <<165,0>>, <<166,119>>, <<167,119>>, <<168,119>>, <<169,119>>, <<161,128>>, <<162,128>>, <<254,1>>, <<223,13>>,
    <<220,37>>, <<221,48>>, <<224,119>>, <<225,128>>, <<226,119>>, <<227,144>>, <<230,144>>, <<231,160>>, <<232,144>>, <<233,160>>,
    <<254,0>>, <<254,1>>, <<79,0>>, <<79,0>>, <<75,1>>, <<79,0>>, <<76,1>>, <<77,113>>, <<78,1>>, <<76,1>>,
    <<77,145>>, <<78,1>>, <<76,1>>, <<77,112>>, <<78,1>>, <<76,1>>, <<77,144>>, <<78,2>>, <<76,1>>, <<77,176>>,
    <<78,2>>, <<76,1>>, <<77,143>>, <<78,2>>, <<76,1>>, <<77,111>>, <<78,2>>, <<76,1>>, <<77,175>>, <<78,2>>,
    <<76,1>>, <<77,208>>, <<78,2>>, <<76,1>>, <<77,240>>, <<78,2>>, <<76,1>>, <<77,207>>, <<78,2>>, <<76,1>>,
    <<77,239>>, <<78,2>>, <<76,1>>, <<77,110>>, <<78,3>>, <<76,1>>, <<77,142>>, <<78,3>>, <<76,1>>, <<77,174>>,
    <<78,3>>, <<76,1>>, <<77,206>>, <<78,3>>, <<76,1>>, <<77,77>>, <<78,3>>, <<76,1>>, <<77,109>>, <<78,3>>,
    <<76,1>>, <<77,141>>, <<78,3>>, <<76,1>>, <<77,173>>, <<78,3>>, <<76,1>>, <<77,205>>, <<78,3>>, <<76,1>>,
    <<77,76>>, <<78,3>>, <<76,1>>, <<77,108>>, <<78,3>>, <<76,1>>, <<77,140>>, <<78,3>>, <<76,1>>, <<77,172>>,
    <<78,3>>, <<76,1>>, <<77,204>>, <<78,3>>, <<76,1>>, <<77,203>>, <<78,3>>, <<76,1>>, <<77,75>>, <<78,3>>,
    <<76,1>>, <<77,107>>, <<78,3>>, <<76,1>>, <<77,139>>, <<78,3>>, <<76,1>>, <<77,171>>, <<78,3>>, <<76,1>>,
    <<77,138>>, <<78,4>>, <<76,1>>, <<77,170>>, <<78,4>>, <<76,1>>, <<77,202>>, <<78,4>>, <<76,1>>, <<77,202>>,
    <<78,4>>, <<76,1>>, <<77,201>>, <<78,4>>, <<76,1>>, <<77,138>>, <<78,4>>, <<76,1>>, <<77,137>>, <<78,4>>,
    <<76,1>>, <<77,169>>, <<78,4>>, <<76,2>>, <<77,11>>, <<78,5>>, <<76,2>>, <<77,10>>, <<78,5>>, <<76,1>>,
    <<77,235>>, <<78,5>>, <<76,1>>, <<77,234>>, <<78,5>>, <<76,2>>, <<77,9>>, <<78,5>>, <<76,2>>, <<77,41>>,
    <<78,5>>, <<76,2>>, <<77,42>>, <<78,5>>, <<76,2>>, <<77,74>>, <<78,5>>, <<76,2>>, <<77,138>>, <<78,6>>,
    <<76,2>>, <<77,73>>, <<78,6>>, <<76,2>>, <<77,105>>, <<78,6>>, <<76,2>>, <<77,137>>, <<78,6>>, <<76,2>>,
    <<77,169>>, <<78,6>>, <<76,2>>, <<77,72>>, <<78,6>>, <<76,2>>, <<77,104>>, <<78,6>>, <<76,2>>, <<77,105>>,
    <<78,6>>, <<76,2>>, <<77,202>>, <<78,7>>, <<76,2>>, <<77,201>>, <<78,7>>, <<76,2>>, <<77,233>>, <<78,7>>,
    <<76,3>>, <<77,9>>, <<78,7>>, <<76,2>>, <<77,200>>, <<78,7>>, <<76,2>>, <<77,232>>, <<78,7>>, <<76,2>>,
    <<77,167>>, <<78,7>>, <<76,2>>, <<77,199>>, <<78,7>>, <<76,2>>, <<77,231>>, <<78,7>>, <<76,3>>, <<77,7>>,
    <<78,7>>, <<79,1>>, <<80,128>>, <<81,168>>, <<82,71>>, <<83,56>>, <<84,199>>, <<86,14>>, <<88,8>>, <<91,0>>,
    <<92,116>>, <<93,139>>, <<97,219>>, <<98,184>>, <<99,134>>, <<100,192>>, <<101,4>>, <<103,168>>, <<104,176>>, <<105,0>>,
    <<106,168>>, <<107,176>>, <<108,175>>, <<109,139>>, <<110,80>>, <<111,24>>, <<115,240>>, <<112,13>>, <<113,96>>, <<114,128>>,
    <<116,1>>, <<117,1>>, <<127,12>>, <<118,112>>, <<119,88>>, <<120,160>>, <<121,94>>, <<122,84>>, <<123,88>>, <<254,0>>,
    <<254,2>>, <<192,1>>, <<193,68>>, <<194,253>>, <<195,4>>, <<196,240>>, <<197,72>>, <<198,253>>, <<199,70>>, <<200,253>>,
    <<201,2>>, <<202,224>>, <<203,69>>, <<204,236>>, <<205,72>>, <<206,240>>, <<207,240>>, <<227,12>>, <<228,75>>, <<229,224>>,
    <<254,1>>, <<159,64>>, <<254,0>>, <<254,0>>, <<242,15>>, <<254,2>>, <<64,191>>, <<70,207>>, <<254,0>>, <<254,0>>,
    <<5,1>>, <<6,86>>, <<7,0>>, <<8,50>>, <<254,1>>, <<37,0>>, <<38,250>>, <<39,4>>, <<40,226>>, <<41,6>>,
    <<42,214>>, <<43,7>>, <<44,208>>, <<45,11>>, <<46,184>>, <<254,0>>, <<254,0>>, <<253,1>>, <<250,0>>, <<254,0>>,
    <<144,1>>, <<145,0>>, <<146,0>>, <<147,0>>, <<148,0>>, <<149,2>>, <<150,88>>, <<151,3>>, <<152,32>>, <<153,17>>,
    <<154,6>>, <<254,0>>, <<236,2>>, <<237,2>>, <<238,48>>, <<239,72>>, <<254,2>>, <<157,8>>, <<254,1>>, <<116,0>>,
    <<254,1>>, <<1,4>>, <<2,96>>, <<3,2>>, <<4,72>>, <<5,24>>, <<6,80>>, <<7,16>>, <<8,56>>, <<10,128>>,
    <<33,4>>, <<254,0>>, <<32,3>>, <<254,0>>, <<255,0>>
  >>

gc2145_fmt_yuv422_yuyv == << <<132, 2>> >>

gc2145_fmt_yuv422_yvyu == << <<132, 3>> >>

gc2145_fmt_yuv422_vyuy == << <<132, 1>> >>

gc2145_fmt_yuv422_uyvy == << <<132, 0>> >>

gc2145_fmt_raw == << <<132, 24>> >>

ARRAY_SIZE(a) == Len(a)

(***************************************************************************)
(* Format catalog (gc2145.c:1130-1168).  Media-bus codes and colorspaces   *)
(* are written as the identifiers' suffixes.  TLA+ sequences are 1-based:  *)
(* C index i is element i + 1.                                             *)
(***************************************************************************)
gc2145_format_list ==
  << [code |-> "UYVY8_2X8",     colorspace |-> "SRGB", output_fmt |-> 0,
      fmt_reg |-> gc2145_fmt_yuv422_uyvy],
     [code |-> "VYUY8_2X8",     colorspace |-> "JPEG", output_fmt |-> 1,
      fmt_reg |-> gc2145_fmt_yuv422_vyuy],
     [code |-> "YUYV8_2X8",     colorspace |-> "SRGB", output_fmt |-> 2,
      fmt_reg |-> gc2145_fmt_yuv422_yuyv],
     [code |-> "YVYU8_2X8",     colorspace |-> "JPEG", output_fmt |-> 3,
      fmt_reg |-> gc2145_fmt_yuv422_yvyu],
     [code |-> "RGB565_2X8_BE", colorspace |-> "SRGB", output_fmt |-> 6,
      fmt_reg |-> gc2145_fmt_raw],
     [code |-> "SBGGR8_1X8",    colorspace |-> "RAW",  output_fmt |-> 25,
      fmt_reg |-> gc2145_fmt_raw] >>

CatalogCodes == {gc2145_format_list[i].code : i \in 1..ARRAY_SIZE(gc2145_format_list)}

(***************************************************************************)
(* Mode catalog (gc2145.c:1170-1234)                                       *)
(***************************************************************************)
GC2145_MODE_SVGA_800_600 == 2

gc2145_mode_list ==
  << [id |-> 0, hact |-> 320,  htot |-> 320,  vact |-> 240,  vtot |-> 240],
     [id |-> 1, hact |-> 640,  htot |-> 640,  vact |-> 480,  vtot |-> 480],
     [id |-> 2, hact |-> 800,  htot |-> 800,  vact |-> 600,  vtot |-> 600],
     [id |-> 3, hact |-> 1600, htot |-> 1600, vact |-> 1200, vtot |-> 1200] >>

(* a C NULL mode pointer; otherwise a mode pointer is the entry's C index *)
NULL == -1

(***************************************************************************)
(* The sensor behind the bus.  Of its register file the model keeps the    *)
(* page-select register and the two page-0 registers the driver reads back *)
(* or patches: 0x17 (mirror/flip bits) and 0x84 (output format).  chip is  *)
(* the identifier the silicon answers with at 0xF0/0xF1.                   *)
(***************************************************************************)
(* the values registers 0x17 and 0x84 hold before the init program         *)
(* rewrites them (gc2145.c:144, 171)                                        *)
HwResetFlip == 20

HwResetOutfmt == 0

(* register contents after a reset pulse *)
HwReset == [page |-> 0, flip |-> HwResetFlip, outfmt |-> HwResetOutfmt]

HwWrite(h, reg, val) ==
  IF reg = GC2145_REG_PAGE_SELECT THEN [h EXCEPT !.page = val]
  ELSE IF h.page = 0 /\ reg = GC2145_REG_FLIP THEN [h EXCEPT !.flip = val]
  ELSE IF h.page = 0 /\ reg = GC2145_REG_OUTPUT_FORMAT THEN [h EXCEPT !.outfmt = val]
  ELSE h

HwRead(h, id, reg) ==
  IF reg = GC2145_REG_CHIP_ID_H THEN id[1]
  ELSE IF reg = GC2145_REG_CHIP_ID_L THEN id[2]
  ELSE IF reg = GC2145_REG_PAGE_SELECT THEN h.page
  ELSE IF h.page = 0 /\ reg = GC2145_REG_FLIP THEN h.flip
  ELSE IF h.page = 0 /\ reg = GC2145_REG_OUTPUT_FORMAT THEN h.outfmt
  ELSE 0

(***************************************************************************)
(* Events of an operation, in program order:                               *)
(*   "w" a v   : register write dispatched to the transport                *)
(*   "r" a     : register read dispatched to the transport                 *)
(*               (ok: whether the transfer succeeded)                      *)
(*   "mdelay" / "udelay" v : blocking delay                                *)
(*   "pwdn" v / "reset" v  : gpiod_set_value_cansleep on that line         *)
(*   "clk_off" : clk_disable_unprepare(xclk)                               *)
(***************************************************************************)
Event(k, a, v, ok) == [k |-> k, a |-> a, v |-> v, ok |-> ok]

IsBusEvent(e) == e.k \in {"w", "r"}

BusEvents(tr) == SelectSeq(tr, IsBusEvent)

IsSignalEvent(e) == e.k \in {"pwdn", "reset", "clk_off"}

SignalEvents(tr) == SelectSeq(tr, IsSignalEvent)

(***************************************************************************)
(* The execution context an operation threads through its helper calls:    *)
(* the lines and clock, the sensor registers, the events so far and the    *)
(* number n of bus accesses dispatched so far.  F is the set of ordinals   *)
(* (1 = first access of the operation) at which the transport fails.       *)
(***************************************************************************)
Ctx(pw, rs, ck, h, c) ==
  [pwdn |-> pw, reset |-> rs, xclk |-> ck, hw |-> h, chip |-> c, trace |-> << >>, n |-> 0]

Emit(d, e) == [d EXCEPT !.trace = Append(@, e)]

(* gc2145_write_reg (gc2145.c:1330-1353) *)
gc2145_write_reg(d, F, reg, val) ==
  LET ok == (d.n + 1) \notin F
      sent == [Emit(d, Event("w", reg, val, ok)) EXCEPT !.n = @ + 1] IN
  IF ~ok
  THEN [ret |-> -EREMOTEIO, d |-> sent]
  ELSE [ret |-> 0, d |-> [sent EXCEPT !.hw = HwWrite(@, reg, val)]]

(* gc2145_read_reg (gc2145.c:1355-1383): *val is assigned only on success *)
gc2145_read_reg(d, F, reg) ==
  LET ok == (d.n + 1) \notin F
      sent == [Emit(d, Event("r", reg, 0, ok)) EXCEPT !.n = @ + 1] IN
  IF ~ok
  THEN [ret |-> -EREMOTEIO, assigned |-> FALSE, val |-> 0, d |-> sent]
  ELSE [ret |-> 0, assigned |-> TRUE, val |-> HwRead(d.hw, d.chip, reg), d |-> sent]

mdelay(d, ms) == Emit(d, Event("mdelay", 0, ms, TRUE))

udelay(d, us) == Emit(d, Event("udelay", 0, us, TRUE))

MaxOf(S) == CHOOSE i \in S : \A j \in S : j <= i

(* The sensor registers after the writes ws (successful ones, in order)     *)
(* have each been applied with HwWrite: the page is the last value written  *)
(* to the page select; a page-0 register holds the last value written to    *)
(* it while page 0 was selected.                                           *)
HwApply(h, ws) ==
  LET page_writes == {i \in 1..Len(ws) : ws[i].a = GC2145_REG_PAGE_SELECT}
      page_before(i) ==
        LET P == {j \in page_writes : j < i} IN
        IF P = {} THEN h.page ELSE ws[MaxOf(P)].v
      landed(reg) == {i \in 1..Len(ws) : ws[i].a = reg /\ page_before(i) = 0}
      value(reg, old) == IF landed(reg) = {} THEN old ELSE ws[MaxOf(landed(reg))].v
  IN [page |-> IF page_writes = {} THEN h.page ELSE ws[MaxOf(page_writes)].v,
      flip |-> value(GC2145_REG_FLIP, h.flip),
      outfmt |-> value(GC2145_REG_OUTPUT_FORMAT, h.outfmt)]

(* the successful writes to a register the model keeps (HwWrite ignores     *)
(* every other write)                                                       *)
IsTrackedWrite(e) ==
  e.k = "w" /\ e.ok
  /\ e.a \in {GC2145_REG_PAGE_SELECT, GC2145_REG_FLIP, GC2145_REG_OUTPUT_FORMAT}

(***************************************************************************)
(* gc2145_write_array (gc2145.c:1385-1425).  client and regs are TRUE when  *)
(* the pointer is non-NULL; rows is the array regs points to.              *)
(* The loop (1410-1420) visits rows 1..size front to back: a row whose      *)
(* address is GC2145_REG_NULL is a delay of val ms, every other row is a    *)
(* gc2145_write_reg, and the first failing write ends the loop (break) with *)
(* its error as the result.  It is written here without recursion:         *)
(*   delays     the rows that are delays,                                  *)
(*   writes(i)  the number of writes dispatched by rows 1..i,              *)
(*   stop       the row whose write fails first (size + 1 if none).        *)
(***************************************************************************)
gc2145_write_array(d, F, client, regs, rows, size) ==
  IF ~client THEN [ret |-> -EINVAL, d |-> d]
  ELSE IF ~regs THEN [ret |-> -EINVAL, d |-> d]
  ELSE IF size = 0 THEN [ret |-> -EINVAL, d |-> d]
  ELSE
    LET delays == {j \in 1..size : rows[j][1] = GC2145_REG_NULL}
        writes(i) == i - Cardinality({j \in delays : j <= i})
        fails(i) == rows[i][1] # GC2145_REG_NULL /\ (d.n + writes(i)) \in F
        failing == {i \in 1..size : fails(i)}
        stop == IF failing = {} THEN size + 1
                ELSE CHOOSE i \in failing : \A j \in failing : i <= j
        visited == IF stop > size THEN size ELSE stop
        events == [i \in 1..visited |->
                     IF rows[i][1] = GC2145_REG_NULL
                     THEN Event("mdelay", 0, rows[i][2], TRUE)
                     ELSE Event("w", rows[i][1], rows[i][2], i # stop)]
    IN [ret |-> IF stop > size THEN 0 ELSE -EREMOTEIO,
        d |-> [d EXCEPT !.trace = @ \o events,
                        !.n = @ + writes(visited),
                        !.hw = HwApply(@, SelectSeq(events, IsTrackedWrite))]]

(***************************************************************************)
(* The same function as the C code runs it, row by row: write_array_for is *)
(* the for loop (gc2145.c:1410-1420) from C index i on, ret the value of   *)
(* the variable ret so far.                                                *)
(***************************************************************************)
(* a test that takes no row for a delay *)
IsDelayRow_never(row) == FALSE

(* a row that is a delay: regs[i].addr == GC2145_REG_NULL (1411) *)
IsDelayRow(row) == row[1] = GC2145_REG_NULL

(* a loop that goes on after a failed write *)
RECURSIVE write_array_for_no_break(_, _, _, _, _, _)
write_array_for_no_break(d, F, rows, size, i, ret) ==
  IF i >= size THEN [ret |-> ret, d |-> d]
  ELSE IF IsDelayRow(rows[i + 1])
       THEN write_array_for_no_break(mdelay(d, rows[i + 1][2]), F, rows, size, i + 1, ret)
       ELSE LET w == gc2145_write_reg(d, F, rows[i + 1][1], rows[i + 1][2]) IN
            write_array_for_no_break(w.d, F, rows, size, i + 1, w.ret)

RECURSIVE write_array_for(_, _, _, _, _, _)
write_array_for(d, F, rows, size, i, ret) ==
  IF i >= size THEN [ret |-> ret, d |-> d]
  ELSE IF IsDelayRow(rows[i + 1])
       THEN write_array_for(mdelay(d, rows[i + 1][2]), F, rows, size, i + 1, ret)
       ELSE LET w == gc2145_write_reg(d, F, rows[i + 1][1], rows[i + 1][2]) IN
            IF w.ret < 0 THEN [ret |-> w.ret, d |-> w.d]
            ELSE write_array_for(w.d, F, rows, size, i + 1, w.ret)

(* a write_array without its argument checks *)
write_array_unchecked(d, F, client, regs, rows, size) ==
  write_array_for(d, F, rows, size, 0, 0)

(* gc2145_write_array (gc2145.c:1385-1425), argument checks and loop *)
write_array_by_loop(d, F, client, regs, rows, size) ==
  IF ~client THEN [ret |-> -EINVAL, d |-> d]
  ELSE IF ~regs THEN [ret |-> -EINVAL, d |-> d]
  ELSE IF size = 0 THEN [ret |-> -EINVAL, d |-> d]
  ELSE write_array_for(d, F, rows, size, 0, 0)

(***************************************************************************)
(* Media-bus frame formats (struct v4l2_mbus_framefmt)                     *)
(***************************************************************************)
Format(w, h, c, fld, cs, enc, q, x) ==
  [width |-> w, height |-> h, code |-> c, field |-> fld, colorspace |-> cs,
   ycbcr_enc |-> enc, quantization |-> q, xfer_func |-> x]

(* an all-zero struct, as allocated by kzalloc *)
ZeroFormat == Format(0, 0, "ZERO", "ANY", "DEFAULT", "DEFAULT", "DEFAULT", "DEFAULT")

(* what a caller fills in of a request: size and code *)
Request(w, h, c) == [ZeroFormat EXCEPT !.width = w, !.height = h, !.code = c]

V4L2_SUBDEV_FORMAT_TRY == 0

V4L2_SUBDEV_FORMAT_ACTIVE == 1

V4L2_MAP_YCBCR_ENC_DEFAULT(colsp) ==
  IF colsp = "REC709" THEN "709"
  ELSE IF colsp = "BT2020" THEN "BT2020"
  ELSE IF colsp = "SMPTE240M" THEN "SMPTE240M"
  ELSE "601"

V4L2_MAP_QUANTIZATION_DEFAULT(is_rgb_or_hsv, colsp, ycbcr_enc) ==
  IF is_rgb_or_hsv /\ colsp = "BT2020" THEN "LIM_RANGE"
  ELSE IF is_rgb_or_hsv \/ colsp = "JPEG" THEN "FULL_RANGE"
  ELSE "LIM_RANGE"

V4L2_MAP_XFER_FUNC_DEFAULT(colsp) ==
  IF colsp = "OPRGB" THEN "OPRGB"
  ELSE IF colsp = "SMPTE240M" THEN "SMPTE240M"
  ELSE IF colsp = "DCI_P3" THEN "DCI_P3"
  ELSE IF colsp = "RAW" THEN "NONE"
  ELSE IF colsp \in {"SRGB", "JPEG"} THEN "SRGB"
  ELSE "709"

(***************************************************************************)
(* Catalog lookups                                                         *)
(***************************************************************************)
RECURSIVE find_pixfmt_loop(_, _)
find_pixfmt_loop(code, i) ==
  IF i >= ARRAY_SIZE(gc2145_format_list) THEN i
  ELSE IF gc2145_format_list[i + 1].code = code THEN i
  ELSE find_pixfmt_loop(code, i + 1)

(* a lookup that falls back to the last entry of the catalog *)
find_pixfmt_or_last(code) ==
  LET i == find_pixfmt_loop(code, 0) IN
  IF i >= ARRAY_SIZE(gc2145_format_list) THEN ARRAY_SIZE(gc2145_format_list) - 1 ELSE i

(* a lookup that answers with the entry after the one the loop stops at *)
find_pixfmt_next(code) ==
  (find_pixfmt_loop(code, 0) + 1) % ARRAY_SIZE(gc2145_format_list)

(* gc2145_find_pixfmt (gc2145.c:1454-1474): the C index of the entry *)
gc2145_find_pixfmt(code) ==
  LET i == find_pixfmt_loop(code, 0) IN
  IF i >= ARRAY_SIZE(gc2145_format_list) THEN 0 ELSE i

Abs(x) == IF x < 0 THEN -x ELSE x

(* v4l2_find_nearest_size over gc2145_mode_list by (hact, vact): the entry  *)
(* of least |hact - width| + |vact - height|; an entry replaces the best   *)
(* so far unless its error is strictly larger; an exact match ends the     *)
(* scan.  min_error starts at U32_MAX, which no error exceeds: while best   *)
(* is NULL the entry is always taken.                                      *)
RECURSIVE find_nearest_loop(_, _, _, _, _)
find_nearest_loop(width, height, i, best, min_error) ==
  IF i >= ARRAY_SIZE(gc2145_mode_list) THEN best
  ELSE LET error == Abs(gc2145_mode_list[i + 1].hact - width)
                    + Abs(gc2145_mode_list[i + 1].vact - height) IN
       IF best # NULL /\ error > min_error
       THEN find_nearest_loop(width, height, i + 1, best, min_error)
       ELSE IF error = 0 THEN i
       ELSE find_nearest_loop(width, height, i + 1, i, error)

v4l2_find_nearest_size(width, height) == find_nearest_loop(width, height, 0, NULL, 0)

(* a lookup that never demands the exact size *)
find_mode_always_nearest(width, height, nearest) == v4l2_find_nearest_size(width, height)

(* gc2145_find_mode (gc2145.c:1510-1543) *)
gc2145_find_mode(width, height, nearest) ==
  LET mode == v4l2_find_nearest_size(width, height) IN
  IF mode = NULL
     \/ (~nearest /\ (gc2145_mode_list[mode + 1].hact # width
                      \/ gc2145_mode_list[mode + 1].vact # height))
  THEN NULL
  ELSE mode

(* a resolution that leaves the colorspace tag as the caller gave it *)
try_fmt_internal_keeps_colorspace(mbus_fmt, new_mode) ==
  LET mode == gc2145_find_mode(mbus_fmt.width, mbus_fmt.height, TRUE)
      pix_fmt == gc2145_format_list[gc2145_find_pixfmt(mbus_fmt.code) + 1]
  IN [ret |-> 0, mode |-> mode,
      fmt |-> [mbus_fmt EXCEPT !.width = gc2145_mode_list[mode + 1].hact,
                               !.height = gc2145_mode_list[mode + 1].vact,
                               !.field = "NONE",
                               !.code = pix_fmt.code]]

(* a resolution that leaves the code as the caller gave it *)
try_fmt_internal_keeps_code(mbus_fmt, new_mode) ==
  LET mode == gc2145_find_mode(mbus_fmt.width, mbus_fmt.height, TRUE)
      colorspace == gc2145_format_list[gc2145_find_pixfmt(mbus_fmt.code) + 1].colorspace
      ycbcr_enc == V4L2_MAP_YCBCR_ENC_DEFAULT(colorspace)
  IN [ret |-> 0, mode |-> mode,
      fmt |-> Format(gc2145_mode_list[mode + 1].hact,
                     gc2145_mode_list[mode + 1].vact,
                     mbus_fmt.code,
                     "NONE",
                     colorspace,
                     ycbcr_enc,
                     V4L2_MAP_QUANTIZATION_DEFAULT(TRUE, colorspace, ycbcr_enc),
                     V4L2_MAP_XFER_FUNC_DEFAULT(colorspace))]

(* gc2145_try_fmt_internal (gc2145.c:1545-1582): new_mode is TRUE when the  *)
(* out-pointer is non-NULL; fmt is *mbus_fmt on return, mode is *new_mode.  *)
gc2145_try_fmt_internal(mbus_fmt, new_mode) ==
  IF ~new_mode THEN [ret |-> -EINVAL, fmt |-> mbus_fmt, mode |-> NULL]
  ELSE
    LET mode == gc2145_find_mode(mbus_fmt.width, mbus_fmt.height, TRUE) IN
    IF mode = NULL THEN [ret |-> -EINVAL, fmt |-> mbus_fmt, mode |-> NULL]
    ELSE
      LET pix_fmt == gc2145_format_list[gc2145_find_pixfmt(mbus_fmt.code) + 1]
          colorspace == pix_fmt.colorspace
          ycbcr_enc == V4L2_MAP_YCBCR_ENC_DEFAULT(colorspace)
      IN [ret |-> 0,
          mode |-> mode,
          fmt |-> Format(gc2145_mode_list[mode + 1].hact,
                         gc2145_mode_list[mode + 1].vact,
                         pix_fmt.code,
                         "NONE",
                         colorspace,
                         ycbcr_enc,
                         V4L2_MAP_QUANTIZATION_DEFAULT(TRUE, colorspace, ycbcr_enc),
                         V4L2_MAP_XFER_FUNC_DEFAULT(colorspace))]

IsWriteRow(row) == row[1] # GC2145_REG_NULL

(* the number of register writes of the init program *)
InitWrites == Len(SelectSeq(gc2145_init_regs, IsWriteRow))

(* transport failure patterns of an active set_fmt: none, the first write   *)
(* of the init program, the page select, the format patch                   *)
FmtFailSets == {{}, {1}, {InitWrites + 1}, {InitWrites + 2}}

(***************************************************************************)
(* An active set_fmt applies the init program as the first bus traffic of  *)
(* the call.  Its run is computed once per failure pattern (InitRegsRun)   *)
(* and replayed: write_init_regs(d, F) equals                              *)
(* gc2145_write_array(d, F, TRUE, TRUE, gc2145_init_regs,                  *)
(*                    ARRAY_SIZE(gc2145_init_regs)).                       *)
(***************************************************************************)
InitRegsRun ==
  [F \in FmtFailSets |->
     gc2145_write_array(Ctx(0, 0, TRUE, HwReset, <<0, 0>>), F, TRUE, TRUE,
                        gc2145_init_regs, ARRAY_SIZE(gc2145_init_regs))]

InitRegsTracked ==
  [F \in FmtFailSets |-> SelectSeq(InitRegsRun[F].d.trace, IsTrackedWrite)]

write_init_regs(d, F) ==
  IF d.n = 0 /\ F \in FmtFailSets
  THEN [ret |-> InitRegsRun[F].ret,
        d |-> [d EXCEPT !.trace = @ \o InitRegsRun[F].d.trace,
                        !.n = InitRegsRun[F].d.n,
                        !.hw = HwApply(@, InitRegsTracked[F])]]
  ELSE gc2145_write_array(d, F, TRUE, TRUE, gc2145_init_regs,
                          ARRAY_SIZE(gc2145_init_regs))

(* a params_set that patches the output format without selecting the page *)
params_set_no_page_select(d, F, fmt_code) ==
  LET pixfmt == gc2145_format_list[gc2145_find_pixfmt(fmt_code) + 1]
      a == write_init_regs(d, F)
  IN IF a.ret < 0 THEN a
     ELSE LET o == gc2145_write_reg(a.d, F, pixfmt.fmt_reg[1][1], pixfmt.fmt_reg[1][2]) IN
          IF o.ret < 0 THEN o ELSE [ret |-> 0, d |-> o.d]

(* gc2145_params_set (gc2145.c:1645-1697); fmt_code is sensor->fmt.code *)
gc2145_params_set(d, F, fmt_code) ==
  LET pixfmt == gc2145_format_list[gc2145_find_pixfmt(fmt_code) + 1]
      a == write_init_regs(d, F)
  IN IF a.ret < 0 THEN a
     ELSE LET p == gc2145_write_reg(a.d, F, GC2145_REG_PAGE_SELECT, 0) IN
          IF p.ret < 0 THEN p
          ELSE LET o == gc2145_write_reg(p.d, F, pixfmt.fmt_reg[1][1], pixfmt.fmt_reg[1][2]) IN
               IF o.ret < 0 THEN o ELSE [ret |-> 0, d |-> o.d]

(***************************************************************************)
(* Power sequencer                                                         *)
(***************************************************************************)
gpiod_set_value_cansleep(d, line, v) ==
  LET e == Emit(d, Event(line, 0, v, TRUE)) IN
  IF line = "pwdn" THEN [e EXCEPT !.pwdn = v]
  ELSE (* a falling edge of the reset line ends the reset pulse: the sensor's
          registers are back at their defaults *)
       [e EXCEPT !.reset = v,
                 !.hw = IF d.reset = 1 /\ v = 0 THEN HwReset ELSE @]

(* gc2145_power (gc2145.c:1780-1798); has_pwdn: sensor->pwdn_gpio non-NULL *)
gc2145_power(d, has_pwdn, enable) ==
  IF ~has_pwdn THEN [ret |-> -1, d |-> d]
  ELSE IF enable
       THEN [ret |-> 0,
             d |-> udelay(gpiod_set_value_cansleep(
                            udelay(gpiod_set_value_cansleep(d, "pwdn", 1), 100),
                            "pwdn", 0), 100)]
       ELSE [ret |-> 0, d |-> udelay(gpiod_set_value_cansleep(d, "pwdn", 1), 100)]

(* gc2145_reset (gc2145.c:1800-1815) *)
gc2145_reset(d, has_reset) ==
  IF ~has_reset THEN [ret |-> -1, d |-> d]
  ELSE [ret |-> 0,
        d |-> udelay(gpiod_set_value_cansleep(
                       udelay(gpiod_set_value_cansleep(d, "reset", 1), 100),
                       "reset", 0), 100)]

(* a power-on that pulses reset before power-down *)
set_power_on_reset_first(d, has_pwdn, has_reset) ==
  LET r == gc2145_reset(d, has_reset) IN
  IF r.ret # 0 THEN [ret |-> -1, d |-> r.d]
  ELSE LET p == gc2145_power(r.d, has_pwdn, TRUE) IN
       IF p.ret # 0 THEN [ret |-> -1, d |-> p.d]
       ELSE [ret |-> 0, d |-> p.d]

(* gc2145_set_power_on (gc2145.c:1817-1835) *)
gc2145_set_power_on(d, has_pwdn, has_reset) ==
  LET p == gc2145_power(d, has_pwdn, TRUE) IN
  IF p.ret # 0 THEN [ret |-> -1, d |-> p.d]
  ELSE LET r == gc2145_reset(p.d, has_reset) IN
       IF r.ret # 0 THEN [ret |-> -1, d |-> r.d]
       ELSE [ret |-> 0, d |-> r.d]

(* gc2145_set_power_off (gc2145.c:1837-1848) *)
gc2145_set_power_off(d, has_pwdn) ==
  LET p == gc2145_power(d, has_pwdn, FALSE) IN
  IF p.ret # 0 THEN [ret |-> -1, d |-> p.d]
  ELSE [ret |-> 0, d |-> [Emit(p.d, Event("clk_off", 0, 0, TRUE)) EXCEPT !.xclk = FALSE]]

(***************************************************************************)
(* Flip controls                                                           *)
(***************************************************************************)
(* a flip that does not test the result of its read and writes back what   *)
(* regs.val held before it                                                 *)
s_flip_read_unchecked(d, F, bit, value) ==
  LET w == gc2145_write_reg(d, F, GC2145_REG_PAGE_SELECT, 0) IN
  IF w.ret < 0 THEN [ret |-> w.ret, d |-> w.d]
  ELSE LET r == gc2145_read_reg(w.d, F, GC2145_REG_FLIP) IN
       IF value \notin {0, 1} THEN [ret |-> -EINVAL, d |-> r.d]
       ELSE LET val == IF value = 0 THEN ClearBit(r.val, bit) ELSE OrBit(r.val, bit)
                o == gc2145_write_reg(r.d, F, GC2145_REG_FLIP, val)
            IN IF o.ret < 0 THEN [ret |-> o.ret, d |-> o.d]
               ELSE [ret |-> 0, d |-> mdelay(o.d, 20)]

(* gc2145_s_vflip / gc2145_s_hflip (gc2145.c:1897-1981) differ in the bit   *)
(* they touch: bit 1 (mask 0x02) for vflip, bit 0 (mask 0x01) for hflip.    *)
s_flip(d, F, bit, value) ==
  LET w == gc2145_write_reg(d, F, GC2145_REG_PAGE_SELECT, 0) IN
  IF w.ret < 0 THEN [ret |-> w.ret, d |-> w.d]
  ELSE LET r == gc2145_read_reg(w.d, F, GC2145_REG_FLIP) IN
       IF r.ret < 0 THEN [ret |-> r.ret, d |-> r.d]
       ELSE IF value \notin {0, 1} THEN [ret |-> -EINVAL, d |-> r.d]
       ELSE LET val == IF value = 0 THEN ClearBit(r.val, bit) ELSE OrBit(r.val, bit)
                o == gc2145_write_reg(r.d, F, GC2145_REG_FLIP, val)
            IN IF o.ret < 0 THEN [ret |-> o.ret, d |-> o.d]
               ELSE [ret |-> 0, d |-> mdelay(o.d, 20)]

gc2145_s_vflip(d, F, value) == s_flip(d, F, 1, value)

(* an hflip that touches the vflip bit *)
s_hflip_bit1(d, F, value) == s_flip(d, F, 1, value)

gc2145_s_hflip(d, F, value) == s_flip(d, F, 0, value)

(* an s_ctrl that takes every control for VFLIP *)
s_ctrl_any_id(d, F, id, val) == gc2145_s_vflip(d, F, val)

(* gc2145_s_ctrl (gc2145.c:1983-1997) *)
gc2145_s_ctrl(d, F, id, val) ==
  IF id = "V4L2_CID_VFLIP" THEN gc2145_s_vflip(d, F, val)
  ELSE IF id = "V4L2_CID_HFLIP" THEN gc2145_s_hflip(d, F, val)
  ELSE [ret |-> -EINVAL, d |-> d]

(* v4l2_ctrl_handler_setup as probe calls it (gc2145.c:2137-2147, 2177):    *)
(* s_ctrl with the default value 0 for each writable control, in control-id *)
(* order (HFLIP, then VFLIP); the read-only PIXEL_RATE is skipped; the      *)
(* first error ends the setup.                                             *)
v4l2_ctrl_handler_setup(d, F) ==
  LET h == gc2145_s_ctrl(d, F, "V4L2_CID_HFLIP", 0) IN
  IF h.ret # 0 THEN h ELSE gc2145_s_ctrl(h.d, F, "V4L2_CID_VFLIP", 0)

(***************************************************************************)
(* Identification                                                          *)
(***************************************************************************)
(* The test of gc2145_check_chip_id (gc2145.c:2041): TRUE when the chip is  *)
(* rejected.                                                               *)
wrong_chip_id(chip_id) ==
  (chip_id[1] # ((GC2145_CHIP_ID \div 256) % 256))
  /\ (chip_id[2] # (GC2145_REG_CHIP_ID_L % 256))

(* gc2145_check_chip_id (gc2145.c:2026-2049).  The two reads' results are   *)
(* not checked: after a failed read chip_id[k] is the uninitialised stack   *)
(* byte, any value; garbage supplies it.                                   *)
gc2145_check_chip_id(d, F, has_pwdn, has_reset, garbage) ==
  LET p == gc2145_set_power_on(d, has_pwdn, has_reset) IN
  IF p.ret # 0 THEN [ret |-> p.ret, d |-> p.d, chip_id |-> <<0, 0>>, read |-> FALSE]
  ELSE
    LET h == gc2145_read_reg(p.d, F, GC2145_REG_CHIP_ID_H)
        l == gc2145_read_reg(h.d, F, GC2145_REG_CHIP_ID_L)
        chip_id == << IF h.assigned THEN h.val ELSE garbage[1],
                      IF l.assigned THEN l.val ELSE garbage[2] >>
    IN IF wrong_chip_id(chip_id)
       THEN [ret |-> -ENXIO, d |-> gc2145_set_power_off(l.d, has_pwdn).d,
             chip_id |-> chip_id, read |-> TRUE]
       ELSE [ret |-> 0, d |-> l.d, chip_id |-> chip_id, read |-> TRUE]

(* gc2145_mode_set_default (gc2145.c:2051-2068) *)
DefaultFormat ==
  LET colorspace == gc2145_format_list[1].colorspace
      ycbcr_enc == V4L2_MAP_YCBCR_ENC_DEFAULT(colorspace)
  IN Format(gc2145_mode_list[GC2145_MODE_SVGA_800_600 + 1].hact,
            gc2145_mode_list[GC2145_MODE_SVGA_800_600 + 1].vact,
            gc2145_format_list[1].code,
            "NONE",
            colorspace,
            ycbcr_enc,
            V4L2_MAP_QUANTIZATION_DEFAULT(TRUE, colorspace, ycbcr_enc),
            V4L2_MAP_XFER_FUNC_DEFAULT(colorspace))

(***************************************************************************)
(* Bounds of the model                                                     *)
(***************************************************************************)
(* s_power calls in one behaviour *)
MaxPowerCalls == 3

(* rows of a register program handed to write_array *)
MaxProgLen == 3

(* the callers' sessions (file handles), each with its own pad config and   *)
(* so its own try format                                                    *)
Sessions == {1, 2}

(***************************************************************************)
(* State                                                                   *)
(***************************************************************************)
VARIABLES
  lifecycle,     \* "unbound", "bound" (probe succeeded), "probe_failed", "removed"
  chip,          \* the identifier bytes <<high, low>> of the silicon on the bus
  has_pwdn,      \* sensor->pwdn_gpio is non-NULL
  has_reset,     \* sensor->reset_gpio is non-NULL
  pwdn,          \* logical level of the power-down line (1 = asserted)
  reset,         \* logical level of the reset line (1 = asserted)
  xclk,          \* the reference clock is enabled
  hw,            \* sensor registers
  fmt,           \* sensor->fmt, the committed (active) format
  current_mode,  \* sensor->current_mode, a C index into gc2145_mode_list
  try_fmt,       \* the try format of each session's pad config
  power_count,   \* sensor->power_count
  trace,         \* the events of the most recent operation
  last,          \* the most recent operation: arguments and results
  n_on,          \* s_power(on) calls that returned 0 so far
  n_off,         \* s_power(off) calls so far
  threads,       \* concurrent callers: the call each is in and its position
  mutexes,       \* owner (0: free) of sensor->lock and of the control handler's lock
  power_log      \* power-on sequences run by s_power(on), 0-to-1 stores of power_count

vars == <<lifecycle, chip, has_pwdn, has_reset, pwdn, reset, xclk, hw, fmt,
          current_mode, try_fmt, power_count, trace, last, n_on, n_off,
          threads, mutexes, power_log>>

(* the callers that can be inside the driver at the same time *)
Threads == {1, 2}

(* a caller that is not inside the driver; a caller inside it has op the    *)
(* call, pc its position, and the call's arguments and locals: code         *)
(* (set_fmt), k (params_set: the next write), ctrl/val (s_ctrl), reg        *)
(* (s_vflip/s_hflip: regs.val), on (s_power), seq (s_power: the test at     *)
(* 1874 held), count (s_power: power_count as loaded for the +=), which,    *)
(* sess, index (the pad operations' arguments), F (set_fmt: the writes the  *)
(* transport fails), ret (the value being returned), out (get_fmt: the      *)
(* format copied out)                                                       *)
NoThread ==
  [op |-> "none", pc |-> "none", code |-> "ZERO", k |-> 0, ctrl |-> "none",
   val |-> 0, reg |-> 0, on |-> 0, seq |-> FALSE, count |-> 0,
   which |-> V4L2_SUBDEV_FORMAT_ACTIVE, sess |-> 1, index |-> 0, F |-> {}, ret |-> 0,
   out |-> ZeroFormat]

FseZero == [min_width |-> 0, max_width |-> 0, min_height |-> 0, max_height |-> 0]

(* last before any call; each operation fills in the fields it has *)
NoCall ==
  [op |-> "none", pad |-> 0, which |-> 0, sess |-> 0, index |-> 0, on |-> 0,
   req |-> ZeroFormat, ret |-> 0, out |-> ZeroFormat, code |-> "ZERO",
   fse |-> FseZero, warn |-> FALSE, chip_id |-> <<0, 0>>, id_ret |-> 0,
   powered_on |-> FALSE, ctrl |-> "none", val |-> 0,
   rows |-> << >>, size |-> 0, client |-> FALSE, regs |-> FALSE, F |-> {},
   mode |-> NULL, nearest |-> FALSE]

(* Calls are issued one after the other: a call starts when the result of   *)
(* the one before has been taken (Return).                                  *)
Idle == last.op = "none"

(* The subdev operations test nothing before they use the sensor: they run  *)
(* the same code whether or not gc2145_remove has run (gc2145.c:2196-2208    *)
(* sets no flag, 1427-1997 test none).                                       *)
Callable == lifecycle \in {"bound", "removed"}

Start == Ctx(pwdn, reset, xclk, hw, chip)

Commit(d) ==
  /\ pwdn' = d.pwdn
  /\ reset' = d.reset
  /\ xclk' = d.xclk
  /\ hw' = d.hw
  /\ trace' = d.trace

InitWith(chips) ==
  /\ lifecycle = "unbound"
  /\ chip \in chips
  /\ has_pwdn = FALSE
  /\ has_reset = FALSE
  /\ pwdn = 0
  /\ reset = 0
  /\ xclk = FALSE
  /\ hw = HwReset
  /\ fmt = ZeroFormat
  /\ current_mode = NULL
  /\ try_fmt = [s \in Sessions |-> ZeroFormat]
  /\ power_count = 0
  /\ trace = << >>
  /\ last = NoCall
  /\ n_on = 0
  /\ n_off = 0
  /\ threads = [t \in Threads |-> NoThread]
  /\ mutexes = [sensor |-> 0, handler |-> 0]
  /\ power_log = [seqs |-> 0, ups |-> 0]

(***************************************************************************)
(* gc2145_probe (gc2145.c:2070-2194).  hp, hr: whether the device tree      *)
(* names a powerdown / reset line; F: failing bus accesses; g: the stack    *)
(* bytes chip_id[] holds before the reads.                                 *)
(***************************************************************************)
Probe(hp, hr, F, g) ==
  /\ lifecycle = "unbound"
  /\ Idle
  /\ UNCHANGED <<threads, mutexes, power_log>>
  /\ LET d0 == Ctx(IF hp THEN 1 ELSE pwdn, IF hr THEN 1 ELSE reset, TRUE, hw, chip)
         c == gc2145_check_chip_id(d0, F, hp, hr, g)
         s == IF c.ret # 0 THEN [ret |-> c.ret, d |-> c.d]
              ELSE v4l2_ctrl_handler_setup(c.d, F)
     IN /\ lifecycle' = IF s.ret = 0 THEN "bound" ELSE "probe_failed"
        /\ Commit(s.d)
        /\ last' = [NoCall EXCEPT !.op = "probe", !.ret = s.ret, !.chip_id = c.chip_id,
                                  !.id_ret = c.ret, !.powered_on = c.read]
  /\ has_pwdn' = hp
  /\ has_reset' = hr
  /\ fmt' = DefaultFormat
  /\ current_mode' = GC2145_MODE_SVGA_800_600
  /\ power_count' = 0
  /\ UNCHANGED <<chip, try_fmt, n_on, n_off>>

(***************************************************************************)
(* gc2145_enum_mbus_code (gc2145.c:1427-1452); code_in is what code->code   *)
(* holds on entry.                                                         *)
(***************************************************************************)
(* an index test that gives up one entry early *)
enum_index_past_end_early(index) == index >= ARRAY_SIZE(gc2145_format_list) - 1

(* code->index >= ARRAY_SIZE(gc2145_format_list) (1439) *)
enum_index_past_end(index) == index >= ARRAY_SIZE(gc2145_format_list)

EnumMbusCode(pad, index, code_in) ==
  /\ Callable
  /\ Idle
  /\ UNCHANGED <<threads, mutexes, power_log>>
  /\ LET ret == IF pad # 0 THEN -EINVAL
                ELSE IF enum_index_past_end(index) THEN -EINVAL
                ELSE 0
     IN last' = [NoCall EXCEPT !.op = "enum_mbus_code", !.pad = pad, !.index = index,
                               !.req = Request(0, 0, code_in), !.ret = ret,
                               !.code = IF ret = 0 THEN gc2145_format_list[index + 1].code
                                        ELSE code_in]
  /\ trace' = << >>
  /\ UNCHANGED <<lifecycle, chip, has_pwdn, has_reset, pwdn, reset, xclk, hw, fmt,
                 current_mode, try_fmt, power_count, n_on, n_off>>

(***************************************************************************)
(* gc2145_enum_frame_size (gc2145.c:1476-1508).  The index is checked       *)
(* against the size of the format catalog; gc2145_mode_list[index] with     *)
(* index past the mode catalog reads whatever follows the array: g.        *)
(***************************************************************************)
(* a code test that lets every code through *)
fse_code_mismatch_never(code, found) == FALSE

(* fse->code != code (1494) *)
fse_code_mismatch(code, found) == code # found

EnumFrameSize(pad, index, code, g) ==
  /\ Callable
  /\ Idle
  /\ UNCHANGED <<threads, mutexes, power_log>>
  /\ LET found == gc2145_format_list[gc2145_find_pixfmt(code) + 1].code
         ret == IF index >= ARRAY_SIZE(gc2145_format_list) THEN -EINVAL
                ELSE IF fse_code_mismatch(code, found) THEN -EINVAL
                ELSE 0
         hact == IF index < ARRAY_SIZE(gc2145_mode_list)
                 THEN gc2145_mode_list[index + 1].hact ELSE g[1]
         vact == IF index < ARRAY_SIZE(gc2145_mode_list)
                 THEN gc2145_mode_list[index + 1].vact ELSE g[2]
     IN last' = [NoCall EXCEPT !.op = "enum_frame_size", !.pad = pad, !.index = index,
                               !.req = Request(0, 0, code), !.ret = ret,
                               !.fse = IF ret # 0 THEN FseZero
                                       ELSE [min_width |-> hact, max_width |-> hact,
                                             min_height |-> vact, max_height |-> vact]]
  /\ trace' = << >>
  /\ UNCHANGED <<lifecycle, chip, has_pwdn, has_reset, pwdn, reset, xclk, hw, fmt,
                 current_mode, try_fmt, power_count, n_on, n_off>>

(***************************************************************************)
(* gc2145_get_fmt (gc2145.c:1584-1615); s is the caller's session (cfg);    *)
(* out is format->format on return, all-zero before the call               *)
(***************************************************************************)
(* a get_fmt that answers with the committed format whatever "which" is *)
get_fmt_committed_only(s, pad, which) ==
  IF pad # 0 THEN [ret |-> -EINVAL, out |-> ZeroFormat]
  ELSE [ret |-> 0, out |-> fmt]

gc2145_get_fmt(s, pad, which) ==
  IF pad # 0 THEN [ret |-> -EINVAL, out |-> ZeroFormat]
  ELSE IF which = V4L2_SUBDEV_FORMAT_TRY THEN [ret |-> 0, out |-> try_fmt[s]]
  ELSE [ret |-> 0, out |-> fmt]

GetFmt(s, pad, which) ==
  /\ Callable
  /\ Idle
  /\ UNCHANGED <<threads, mutexes, power_log>>
  /\ last' = [NoCall EXCEPT !.op = "get_fmt", !.pad = pad, !.which = which, !.sess = s,
                            !.ret = gc2145_get_fmt(s, pad, which).ret,
                            !.out = gc2145_get_fmt(s, pad, which).out]
  /\ trace' = << >>
  /\ UNCHANGED <<lifecycle, chip, has_pwdn, has_reset, pwdn, reset, xclk, hw, fmt,
                 current_mode, try_fmt, power_count, n_on, n_off>>

(***************************************************************************)
(* gc2145_set_fmt (gc2145.c:1699-1748); req is format->format on entry,     *)
(* last.out is format->format on return.                                   *)
(***************************************************************************)
(* a set_fmt that programs the sensor whatever "which" is *)
set_fmt_applies_always(which) == TRUE

(* the test that guards gc2145_params_set (gc2145.c:1735) *)
set_fmt_applies(which) == which = V4L2_SUBDEV_FORMAT_ACTIVE

SetFmt(s, pad, which, req, F) ==
  /\ Callable
  /\ Idle
  /\ UNCHANGED <<threads, mutexes, power_log>>
  /\ IF pad # 0
     THEN /\ last' = [NoCall EXCEPT !.op = "set_fmt", !.pad = pad, !.which = which,
                                    !.sess = s, !.req = req, !.ret = -EINVAL, !.out = req]
          /\ trace' = << >>
          /\ UNCHANGED <<pwdn, reset, xclk, hw, fmt, current_mode, try_fmt>>
     ELSE LET mbus_fmt_in == [req EXCEPT !.width = 800, !.height = 600]
              t == gc2145_try_fmt_internal(mbus_fmt_in, TRUE)
              active == (t.ret = 0 /\ set_fmt_applies(which))
              p == IF active THEN gc2145_params_set(Start, F, t.fmt.code)
                   ELSE [ret |-> t.ret, d |-> Start]
          IN /\ try_fmt' = IF t.ret = 0 /\ which = V4L2_SUBDEV_FORMAT_TRY
                           THEN [try_fmt EXCEPT ![s] = t.fmt] ELSE try_fmt
             /\ fmt' = IF t.ret = 0 /\ which # V4L2_SUBDEV_FORMAT_TRY THEN t.fmt ELSE fmt
             /\ current_mode' = IF active THEN t.mode ELSE current_mode
             /\ Commit(p.d)
             /\ last' = [NoCall EXCEPT !.op = "set_fmt", !.pad = pad, !.which = which,
                                       !.sess = s, !.req = req, !.ret = p.ret,
                                       !.out = t.fmt, !.mode = t.mode]
  /\ UNCHANGED <<lifecycle, chip, has_pwdn, has_reset, power_count, n_on, n_off>>

(***************************************************************************)
(* The caller of a set_fmt on pad 0 hands the format it got back to        *)
(* gc2145_set_fmt (gc2145.c:1699-1748), same session and same "which";     *)
(* last.mode is *new_mode of the call.                                     *)
(***************************************************************************)
SetFmtAgain(F) ==
  /\ lifecycle = "bound"
  /\ last.op = "set_fmt"
  /\ last.pad = 0
  /\ UNCHANGED <<threads, mutexes, power_log>>
  /\ LET mbus_fmt_in == [last.out EXCEPT !.width = 800, !.height = 600]
         t == gc2145_try_fmt_internal(mbus_fmt_in, TRUE)
         active == (t.ret = 0 /\ set_fmt_applies(last.which))
         p == IF active THEN gc2145_params_set(Start, F, t.fmt.code)
              ELSE [ret |-> t.ret, d |-> Start]
     IN /\ try_fmt' = IF t.ret = 0 /\ last.which = V4L2_SUBDEV_FORMAT_TRY
                      THEN [try_fmt EXCEPT ![last.sess] = t.fmt] ELSE try_fmt
        /\ fmt' = IF t.ret = 0 /\ last.which # V4L2_SUBDEV_FORMAT_TRY THEN t.fmt ELSE fmt
        /\ current_mode' = IF active THEN t.mode ELSE current_mode
        /\ Commit(p.d)
        /\ last' = [NoCall EXCEPT !.op = "set_fmt_again", !.pad = 0,
                                  !.which = last.which, !.sess = last.sess,
                                  !.req = last.out, !.ret = p.ret,
                                  !.out = t.fmt, !.mode = t.mode]
  /\ UNCHANGED <<lifecycle, chip, has_pwdn, has_reset, power_count, n_on, n_off>>

(***************************************************************************)
(* gc2145_s_power (gc2145.c:1866-1887)                                     *)
(***************************************************************************)
(* !on *)
LogicalNot(on) == IF on = 0 THEN 1 ELSE 0

(* an s_power that sequences the lines on every call *)
s_power_sequences_always(count, on) == TRUE

(* the condition under which s_power runs gc2145_set_power_on (1874) *)
s_power_sequences(count, on) == count = LogicalNot(on)

(* a count that only goes up *)
s_power_delta_up(on) == 1

(* on ? 1 : -1 (1882) *)
s_power_delta(on) == IF on # 0 THEN 1 ELSE -1

(* a WARN_ON that never fires *)
WARN_ON_silent(cond) == FALSE

(* WARN_ON(sensor->power_count < 0) (1883): TRUE when the warning is raised *)
WARN_ON(cond) == cond

(* a count that is updated whatever the power-on sequence returned *)
s_power_count_unconditional(count, on, ret) == count + s_power_delta(on)

(* power_count on return: "if (ret) goto out" skips the update (1876-1882) *)
s_power_count(count, on, ret) ==
  IF ret # 0 THEN count ELSE count + s_power_delta(on)

SPower(on) ==
  /\ Callable
  /\ Idle
  /\ UNCHANGED <<threads, mutexes, power_log>>
  /\ n_on + n_off < MaxPowerCalls
  /\ LET seq == s_power_sequences(power_count, on)
         p == IF seq THEN gc2145_set_power_on(Start, has_pwdn, has_reset)
              ELSE [ret |-> 0, d |-> Start]
     IN /\ Commit(p.d)
        /\ power_count' = s_power_count(power_count, on, p.ret)
        /\ last' = [NoCall EXCEPT !.op = "s_power", !.on = on, !.ret = p.ret,
                                  !.powered_on = seq,
                                  !.warn = (p.ret = 0
                                            /\ WARN_ON(power_count + s_power_delta(on) < 0))]
        /\ n_on' = IF on # 0 /\ p.ret = 0 THEN n_on + 1 ELSE n_on
        /\ n_off' = IF on = 0 THEN n_off + 1 ELSE n_off
  /\ UNCHANGED <<lifecycle, chip, has_pwdn, has_reset, fmt, current_mode, try_fmt>>

(***************************************************************************)
(* gc2145_s_ctrl (gc2145.c:1983-1997) as the control framework calls it    *)
(* for a set-control request: id and val are ctrl->id and ctrl->val.       *)
(***************************************************************************)
SCtrl(id, val, F) ==
  /\ Callable
  /\ Idle
  /\ UNCHANGED <<threads, mutexes, power_log>>
  /\ LET c == gc2145_s_ctrl(Start, F, id, val)
     IN /\ Commit(c.d)
        /\ last' = [NoCall EXCEPT !.op = "s_ctrl", !.ctrl = id, !.val = val,
                                  !.ret = c.ret]
  /\ UNCHANGED <<lifecycle, chip, has_pwdn, has_reset, fmt, current_mode, try_fmt,
                 power_count, n_on, n_off>>

(***************************************************************************)
(* gc2145_write_array (gc2145.c:1385-1425) applied to a register program:  *)
(* client, regs: the pointers are non-NULL; rows: the array; size: the     *)
(* number of rows to apply; F: the writes (1 = first) the transport fails. *)
(***************************************************************************)
WriteArray(client, regs, rows, size, F) ==
  /\ lifecycle = "bound"
  /\ Idle
  /\ UNCHANGED <<threads, mutexes, power_log>>
  /\ LET a == write_array_by_loop(Start, F, client, regs, rows, size)
     IN /\ Commit(a.d)
        /\ last' = [NoCall EXCEPT !.op = "write_array", !.client = client, !.regs = regs,
                                  !.rows = rows, !.size = size, !.F = F, !.ret = a.ret]
  /\ UNCHANGED <<lifecycle, chip, has_pwdn, has_reset, fmt, current_mode, try_fmt,
                 power_count, n_on, n_off>>

(***************************************************************************)
(* gc2145_find_mode (gc2145.c:1510-1543) called with a size and the        *)
(* nearest flag; last.mode is the entry returned (its C index) or NULL.    *)
(***************************************************************************)
FindMode(width, height, nearest) ==
  /\ lifecycle = "bound"
  /\ Idle
  /\ last' = [NoCall EXCEPT !.op = "find_mode", !.req = Request(width, height, "ZERO"),
                            !.nearest = nearest,
                            !.mode = gc2145_find_mode(width, height, nearest)]
  /\ trace' = << >>
  /\ UNCHANGED <<lifecycle, chip, has_pwdn, has_reset, pwdn, reset, xclk, hw, fmt,
                 current_mode, try_fmt, power_count, n_on, n_off, threads, mutexes,
                 power_log>>

(***************************************************************************)
(* gc2145_remove (gc2145.c:2196-2208): unregisters the subdev, frees the   *)
(* control handler and destroys the mutex.  It leaves the lines, the clock *)
(* and every field of the sensor as they are.                              *)
(***************************************************************************)
Remove ==
  /\ lifecycle = "bound"
  /\ Idle
  /\ \A t \in Threads : threads[t].op = "none"
  /\ lifecycle' = "removed"
  /\ last' = [NoCall EXCEPT !.op = "remove", !.ret = 0]
  /\ trace' = << >>
  /\ UNCHANGED <<chip, has_pwdn, has_reset, pwdn, reset, xclk, hw, fmt, current_mode,
                 try_fmt, power_count, n_on, n_off, threads, mutexes, power_log>>

(***************************************************************************)
(* The sensor is devm_kzalloc'ed (gc2145.c:2081): it is released once      *)
(* gc2145_remove has returned.  A subdev operation called after that works *)
(* on released memory: it runs as on the live sensor while the memory      *)
(* still holds its contents (the operations above, Callable), or the       *)
(* kernel faults in it (here).                                             *)
(***************************************************************************)
UseAfterFree ==
  /\ lifecycle = "removed"
  /\ Idle
  /\ last' = [NoCall EXCEPT !.op = "oops"]
  /\ trace' = << >>
  /\ UNCHANGED <<lifecycle, chip, has_pwdn, has_reset, pwdn, reset, xclk, hw, fmt,
                 current_mode, try_fmt, power_count, n_on, n_off, threads, mutexes,
                 power_log>>

(* the caller takes the result of its call *)
Return ==
  /\ ~Idle
  /\ UNCHANGED <<threads, mutexes, power_log>>
  /\ last' = NoCall
  /\ trace' = << >>
  /\ UNCHANGED <<lifecycle, chip, has_pwdn, has_reset, pwdn, reset, xclk, hw, fmt,
                 current_mode, try_fmt, power_count, n_on, n_off>>

(***************************************************************************)
(* Concurrent callers.  A caller is inside at most one call; each step     *)
(* below is one lock operation, one bus transfer (the bus carries one      *)
(* transfer at a time) or one access to a field of struct gc2145_dev.      *)
(* Every transfer succeeds here; failures are the subject of the           *)
(* one-call-at-a-time actions above.                                       *)
(***************************************************************************)
Enter(t, call) ==
  /\ lifecycle = "bound"
  /\ Idle
  /\ threads[t].op = "none"
  /\ threads' = [threads EXCEPT ![t] = call]

At(t, op, pc) ==
  /\ lifecycle = "bound"
  /\ threads[t].op = op
  /\ threads[t].pc = pc

Goto(t, pc) == threads' = [threads EXCEPT ![t].pc = pc]

Leave(t) == threads' = [threads EXCEPT ![t] = NoThread]

(* what no concurrent step changes *)
still == <<lifecycle, chip, has_pwdn, has_reset, trace, last>>

fixed == <<still, try_fmt>>

(* a mutex that anyone can take while it is held *)
mutex_is_free_always(owner) == TRUE

(* mutex_lock goes through when nobody owns the mutex (0: no owner) *)
mutex_is_free(owner) == owner = 0

(* an unlock that leaves the mutex held *)
mutex_unlock_forgotten(ms) == ms

(* mutex_unlock(&sensor->lock) *)
mutex_unlock(ms) == [ms EXCEPT !.sensor = 0]

(* the register writes of the init program, in order *)
InitWriteRows == SelectSeq(gc2145_init_regs, IsWriteRow)

(* the k-th register write of gc2145_params_set (gc2145.c:1663-1672): the  *)
(* init program, the page select, the output format patch                  *)
params_set_write(k, fmt_code) ==
  IF k <= InitWrites THEN InitWriteRows[k]
  ELSE IF k = InitWrites + 1 THEN <<GC2145_REG_PAGE_SELECT, 0>>
  ELSE gc2145_format_list[gc2145_find_pixfmt(fmt_code) + 1].fmt_reg[1]

(* an active gc2145_set_fmt on pad 0 (gc2145.c:1699-1748) *)
CallSetFmt(t, code) ==
  /\ Enter(t, [NoThread EXCEPT !.op = "set_fmt", !.pc = "lock", !.code = code])
  /\ UNCHANGED <<fixed, pwdn, reset, xclk, hw, fmt, current_mode, power_count,
                 n_on, n_off, mutexes, power_log>>

(* gc2145_set_fmt on pad 0 by session s, trial or active, with the writes   *)
(* of F failing in the transport                                            *)
CallSetFmtWhich(t, s, which, code, F) ==
  /\ Enter(t, [NoThread EXCEPT !.op = "set_fmt", !.pc = "lock", !.code = code,
                               !.sess = s, !.which = which, !.F = F])
  /\ UNCHANGED <<fixed, pwdn, reset, xclk, hw, fmt, current_mode, power_count,
                 n_on, n_off, mutexes, power_log>>

(* mutex_lock(&sensor->lock) (1717) *)
SetFmtLock(t) ==
  /\ At(t, "set_fmt", "lock")
  /\ mutex_is_free(mutexes.sensor)
  /\ mutexes' = [mutexes EXCEPT !.sensor = t]
  /\ Goto(t, "commit")
  /\ UNCHANGED <<fixed, pwdn, reset, xclk, hw, fmt, current_mode, power_count,
                 n_on, n_off, power_log>>

(* 1718-1736: resolve the request, store the try format of the caller's    *)
(* session or sensor->fmt and current_mode                                 *)
SetFmtCommit(t) ==
  /\ At(t, "set_fmt", "commit")
  /\ LET r == gc2145_try_fmt_internal(Request(800, 600, threads[t].code), TRUE)
     IN IF r.ret # 0
        THEN /\ threads' = [threads EXCEPT ![t].pc = "unlock", ![t].ret = r.ret]
             /\ UNCHANGED <<fmt, current_mode, try_fmt>>
        ELSE IF threads[t].which = V4L2_SUBDEV_FORMAT_TRY
        THEN /\ try_fmt' = [try_fmt EXCEPT ![threads[t].sess] = r.fmt]
             /\ Goto(t, "unlock")
             /\ UNCHANGED <<fmt, current_mode>>
        ELSE /\ fmt' = r.fmt
             /\ current_mode' = r.mode
             /\ threads' = [threads EXCEPT ![t].pc = "write", ![t].k = 1]
             /\ UNCHANGED try_fmt
  /\ UNCHANGED <<still, pwdn, reset, xclk, hw, power_count, n_on, n_off,
                 mutexes, power_log>>

(* one register write of gc2145_params_set (1740); a failed write ends it *)
SetFmtWrite(t) ==
  /\ At(t, "set_fmt", "write")
  /\ IF threads[t].k \in threads[t].F
     THEN /\ threads' = [threads EXCEPT ![t].pc = "unlock", ![t].ret = -EREMOTEIO]
          /\ UNCHANGED hw
     ELSE /\ LET row == params_set_write(threads[t].k, fmt.code)
             IN hw' = HwWrite(hw, row[1], row[2])
          /\ threads' = [threads EXCEPT ![t].k = @ + 1,
                                        ![t].pc = IF threads[t].k = InitWrites + 2
                                                  THEN "unlock" ELSE "write"]
  /\ UNCHANGED <<fixed, pwdn, reset, xclk, fmt, current_mode, power_count,
                 n_on, n_off, mutexes, power_log>>

(* mutex_unlock(&sensor->lock) and return (1747-1748) *)
SetFmtUnlock(t) ==
  /\ At(t, "set_fmt", "unlock")
  /\ mutexes' = mutex_unlock(mutexes)
  /\ Leave(t)
  /\ UNCHANGED <<fixed, pwdn, reset, xclk, hw, fmt, current_mode, power_count,
                 n_on, n_off, power_log>>

(***************************************************************************)
(* The other operations that take sensor->lock.  A call on a pad other     *)
(* than 0, or with an index past the catalog, returns before the lock and  *)
(* is not a step of its own here.                                          *)
(***************************************************************************)
(* mutex_lock(&sensor->lock) of operation op *)
SensorLock(t, op) ==
  /\ At(t, op, "lock")
  /\ mutex_is_free(mutexes.sensor)
  /\ mutexes' = [mutexes EXCEPT !.sensor = t]
  /\ Goto(t, "locked")
  /\ UNCHANGED <<fixed, pwdn, reset, xclk, hw, fmt, current_mode, power_count,
                 n_on, n_off, power_log>>

(* mutex_unlock(&sensor->lock) of operation op, and its return *)
SensorUnlock(t, op) ==
  /\ At(t, op, "unlock")
  /\ mutexes' = mutex_unlock(mutexes)
  /\ Leave(t)
  /\ UNCHANGED <<fixed, pwdn, reset, xclk, hw, fmt, current_mode, power_count,
                 n_on, n_off, power_log>>

(* gc2145_get_fmt on pad 0 (gc2145.c:1584-1615) *)
CallGetFmt(t, s, which) ==
  /\ Enter(t, [NoThread EXCEPT !.op = "get_fmt", !.pc = "lock", !.sess = s,
                               !.which = which])
  /\ UNCHANGED <<fixed, pwdn, reset, xclk, hw, fmt, current_mode, power_count,
                 n_on, n_off, mutexes, power_log>>

GetFmtLock(t) == SensorLock(t, "get_fmt")

(* format->format = *fmt (1612) *)
GetFmtCopy(t) ==
  /\ At(t, "get_fmt", "locked")
  /\ threads' = [threads EXCEPT
                   ![t].out = gc2145_get_fmt(threads[t].sess, 0, threads[t].which).out,
                   ![t].pc = "unlock"]
  /\ UNCHANGED <<fixed, pwdn, reset, xclk, hw, fmt, current_mode, power_count,
                 n_on, n_off, mutexes, power_log>>

GetFmtUnlock(t) == SensorUnlock(t, "get_fmt")

(* gc2145_enum_mbus_code on pad 0 with an index in the catalog            *)
(* (gc2145.c:1427-1452)                                                    *)
CallEnumMbusCode(t, index) ==
  /\ ~enum_index_past_end(index)
  /\ Enter(t, [NoThread EXCEPT !.op = "enum_mbus_code", !.pc = "lock", !.index = index])
  /\ UNCHANGED <<fixed, pwdn, reset, xclk, hw, fmt, current_mode, power_count,
                 n_on, n_off, mutexes, power_log>>

EnumMbusCodeLock(t) == SensorLock(t, "enum_mbus_code")

(* code->code = gc2145_format_list[code->index].code (1446) *)
EnumMbusCodeCopy(t) ==
  /\ At(t, "enum_mbus_code", "locked")
  /\ threads' = [threads EXCEPT
                   ![t].code = gc2145_format_list[threads[t].index + 1].code,
                   ![t].pc = "unlock"]
  /\ UNCHANGED <<fixed, pwdn, reset, xclk, hw, fmt, current_mode, power_count,
                 n_on, n_off, mutexes, power_log>>

EnumMbusCodeUnlock(t) == SensorUnlock(t, "enum_mbus_code")

(* gc2145_enum_frame_size with an index below the format catalog's size    *)
(* (gc2145.c:1476-1508): the lookup of the code is what the lock covers;   *)
(* the code test and the copy of the sizes come after the unlock           *)
CallEnumFrameSize(t, index, code) ==
  /\ index < ARRAY_SIZE(gc2145_mode_list)
  /\ Enter(t, [NoThread EXCEPT !.op = "enum_frame_size", !.pc = "lock",
                               !.index = index, !.code = code])
  /\ UNCHANGED <<fixed, pwdn, reset, xclk, hw, fmt, current_mode, power_count,
                 n_on, n_off, mutexes, power_log>>

EnumFrameSizeLock(t) == SensorLock(t, "enum_frame_size")

(* gc2145_pixfmt = gc2145_find_pixfmt(fse->code); code = gc2145_pixfmt->code *)
(* (1491-1492); ret is what the test after the unlock will return          *)
EnumFrameSizeFind(t) ==
  /\ At(t, "enum_frame_size", "locked")
  /\ LET found == gc2145_format_list[gc2145_find_pixfmt(threads[t].code) + 1].code
     IN threads' = [threads EXCEPT
                      ![t].ret = IF fse_code_mismatch(threads[t].code, found)
                                 THEN -EINVAL ELSE 0,
                      ![t].pc = "unlock"]
  /\ UNCHANGED <<fixed, pwdn, reset, xclk, hw, fmt, current_mode, power_count,
                 n_on, n_off, mutexes, power_log>>

EnumFrameSizeUnlock(t) == SensorUnlock(t, "enum_frame_size")

(***************************************************************************)
(* A set-control request for a flip.  The control framework calls          *)
(* gc2145_s_ctrl with the control handler's lock held; probe leaves that   *)
(* lock the handler's own mutex (v4l2_ctrl_handler_init, gc2145.c:2137;    *)
(* nothing points it at sensor->lock), and gc2145_s_ctrl, gc2145_s_vflip   *)
(* and gc2145_s_hflip take no lock (1897-1997).                            *)
(***************************************************************************)
CallSCtrl(t, id, val) ==
  /\ Enter(t, [NoThread EXCEPT !.op = "s_ctrl", !.pc = "lock", !.ctrl = id, !.val = val])
  /\ UNCHANGED <<fixed, pwdn, reset, xclk, hw, fmt, current_mode, power_count,
                 n_on, n_off, mutexes, power_log>>

SCtrlLock(t) ==
  /\ At(t, "s_ctrl", "lock")
  /\ mutexes.handler = 0
  /\ mutexes' = [mutexes EXCEPT !.handler = t]
  /\ Goto(t, "page")
  /\ UNCHANGED <<fixed, pwdn, reset, xclk, hw, fmt, current_mode, power_count,
                 n_on, n_off, power_log>>

(* the page-select write (1901-1903 / 1944-1946) *)
SCtrlPage(t) ==
  /\ At(t, "s_ctrl", "page")
  /\ hw' = HwWrite(hw, GC2145_REG_PAGE_SELECT, 0)
  /\ Goto(t, "read")
  /\ UNCHANGED <<fixed, pwdn, reset, xclk, fmt, current_mode, power_count,
                 n_on, n_off, mutexes, power_log>>

(* the read of register 0x17 into regs.val (1910-1911 / 1953-1954) *)
SCtrlRead(t) ==
  /\ At(t, "s_ctrl", "read")
  /\ threads' = [threads EXCEPT ![t].reg = HwRead(hw, chip, GC2145_REG_FLIP),
                                ![t].pc = "write"]
  /\ UNCHANGED <<fixed, pwdn, reset, xclk, hw, fmt, current_mode, power_count,
                 n_on, n_off, mutexes, power_log>>

(* the value switch and the write-back (1918-1929 / 1961-1972) *)
SCtrlWrite(t) ==
  /\ At(t, "s_ctrl", "write")
  /\ LET bit == IF threads[t].ctrl = "V4L2_CID_VFLIP" THEN 1 ELSE 0
         val == IF threads[t].val = 0 THEN ClearBit(threads[t].reg, bit)
                ELSE OrBit(threads[t].reg, bit)
     IN hw' = HwWrite(hw, GC2145_REG_FLIP, val)
  /\ Goto(t, "unlock")
  /\ UNCHANGED <<fixed, pwdn, reset, xclk, fmt, current_mode, power_count,
                 n_on, n_off, mutexes, power_log>>

(* return to the framework, which releases the handler's lock *)
SCtrlUnlock(t) ==
  /\ At(t, "s_ctrl", "unlock")
  /\ mutexes' = [mutexes EXCEPT !.handler = 0]
  /\ Leave(t)
  /\ UNCHANGED <<fixed, pwdn, reset, xclk, hw, fmt, current_mode, power_count,
                 n_on, n_off, power_log>>

(***************************************************************************)
(* gc2145_s_power (gc2145.c:1866-1887) step by step.  Its mutex_lock and   *)
(* mutex_unlock are commented out (1873, 1885), so the test of power_count *)
(* (1874) and the load and the store of "power_count +=" (1882) are        *)
(* separate unprotected accesses.                                          *)
(***************************************************************************)
InSPower == {t \in Threads : threads[t].op = "s_power"}

CallSPower(t, on) ==
  /\ n_on + n_off + Cardinality(InSPower) < MaxPowerCalls
  /\ Enter(t, [NoThread EXCEPT !.op = "s_power", !.pc = "test", !.on = on])
  /\ UNCHANGED <<fixed, pwdn, reset, xclk, hw, fmt, current_mode, power_count,
                 n_on, n_off, mutexes, power_log>>

(* if (sensor->power_count == !on) (1874) *)
SPowerTest(t) ==
  /\ At(t, "s_power", "test")
  /\ LET seq == s_power_sequences(power_count, threads[t].on)
     IN threads' = [threads EXCEPT ![t].seq = seq,
                                   ![t].pc = IF seq THEN "power_on" ELSE "load"]
  /\ UNCHANGED <<fixed, pwdn, reset, xclk, hw, fmt, current_mode, power_count,
                 n_on, n_off, mutexes, power_log>>

(* ret = gc2145_set_power_on(sensor); if (ret) goto out; (1875-1877) *)
SPowerSequence(t) ==
  /\ At(t, "s_power", "power_on")
  /\ LET p == gc2145_set_power_on(Start, has_pwdn, has_reset)
     IN /\ pwdn' = p.d.pwdn
        /\ reset' = p.d.reset
        /\ xclk' = p.d.xclk
        /\ hw' = p.d.hw
        /\ power_log' = [power_log EXCEPT
                           !.seqs = IF threads[t].on # 0 THEN @ + 1 ELSE @]
        /\ IF p.ret # 0
           THEN /\ Leave(t)
                /\ n_off' = IF threads[t].on = 0 THEN n_off + 1 ELSE n_off
           ELSE /\ Goto(t, "load")
                /\ UNCHANGED n_off
  /\ UNCHANGED <<fixed, fmt, current_mode, power_count, n_on, mutexes>>

(* the load of sensor->power_count += ... (1882) *)
SPowerLoad(t) ==
  /\ At(t, "s_power", "load")
  /\ threads' = [threads EXCEPT ![t].count = power_count, ![t].pc = "store"]
  /\ UNCHANGED <<fixed, pwdn, reset, xclk, hw, fmt, current_mode, power_count,
                 n_on, n_off, mutexes, power_log>>

(* the store of sensor->power_count += ..., WARN_ON, return 0 (1882-1886) *)
SPowerStore(t) ==
  /\ At(t, "s_power", "store")
  /\ LET new == threads[t].count + s_power_delta(threads[t].on)
     IN /\ power_count' = new
        /\ power_log' = [power_log EXCEPT
                           !.ups = IF power_count = 0 /\ new = 1 THEN @ + 1 ELSE @]
  /\ n_on' = IF threads[t].on # 0 THEN n_on + 1 ELSE n_on
  /\ n_off' = IF threads[t].on = 0 THEN n_off + 1 ELSE n_off
  /\ Leave(t)
  /\ UNCHANGED <<fixed, pwdn, reset, xclk, hw, fmt, current_mode, mutexes>>

(***************************************************************************)
(* Inputs the operations are exercised with                                *)
(***************************************************************************)
GoodChip == <<33, 69>>

(* right chip; one byte wrong each way; the low byte equal to the address   *)
(* of the low ID register; both wrong                                       *)
ChipIds == {GoodChip, <<33, 0>>, <<0, 69>>, <<0, 241>>, <<0, 0>>}

(* uninitialised chip_id[] contents *)
StackBytes == {<<0, 0>>, <<33, 69>>, <<33, 7>>, <<7, 241>>}

(* failing accesses of probe: 1, 2 the chip-ID reads; 3..5 the HFLIP        *)
(* page select, read, write-back; 6..8 the same for VFLIP                   *)
ProbeFailSets == {{}, {1}, {2}, {1, 2}, {3}, {5}, {7}}

Pads == {0, 1}

(* the catalog's first code, another of its codes, one it does not hold *)
ReqCodes == {"UYVY8_2X8", "YUYV8_2X8", "RGB565_2X8_LE"}

(* the size of a mode catalog entry, and one that is no entry's *)
ReqSizes == {<<640, 480>>, <<1000, 700>>}

Whichs == {V4L2_SUBDEV_FORMAT_TRY, V4L2_SUBDEV_FORMAT_ACTIVE}

(* contents of the memory after gc2145_mode_list *)
PastModeList == {<<0, 0>>, <<48, 85>>}

ProbeStep ==
  \E hp \in BOOLEAN, hr \in BOOLEAN, F \in ProbeFailSets, g \in StackBytes :
    Probe(hp, hr, F, g)

EnumMbusCodeStep ==
  \E pad \in Pads, index \in 0..(ARRAY_SIZE(gc2145_format_list) + 1), c \in {"ZERO"} :
    EnumMbusCode(pad, index, c)

EnumFrameSizeStep ==
  \E pad \in Pads, index \in 0..ARRAY_SIZE(gc2145_format_list),
     c \in {"UYVY8_2X8", "RGB565_2X8_LE"}, g \in PastModeList :
    EnumFrameSize(pad, index, c, g)

GetFmtStep ==
  \E s \in Sessions, pad \in Pads, which \in Whichs : GetFmt(s, pad, which)

(* The active path never looks at the caller's pad config (gc2145.c:1727-   *)
(* 1744), so the active requests are issued by one session.  F only matters *)
(* where a transfer is dispatched.                                          *)
SetFmtStep ==
  \E s \in Sessions, pad \in Pads, which \in Whichs, sz \in ReqSizes, c \in ReqCodes,
     F \in FmtFailSets :
    /\ (which = V4L2_SUBDEV_FORMAT_TRY \/ pad # 0) => F = {}
    /\ which = V4L2_SUBDEV_FORMAT_ACTIVE => s = 1
    /\ SetFmt(s, pad, which, Request(sz[1], sz[2], c), F)

SPowerStep == \E on \in {0, 1} : SPower(on)

(* rows of the programs write_array is exercised with: a page select, a     *)
(* write to the output format register, two delays                          *)
ProgramRows == {<<254, 1>>, <<132, 2>>, <<255, 5>>, <<255, 2>>}

RECURSIVE ProgramsOfLen(_)
ProgramsOfLen(n) ==
  IF n = 0 THEN {<< >>}
  ELSE {Append(p, r) : p \in ProgramsOfLen(n - 1), r \in ProgramRows}

(* every program of at most MaxProgLen rows *)
Programs == UNION {ProgramsOfLen(n) : n \in 0..MaxProgLen}

(* the whole array is applied, or size is 0; an empty array is passed with  *)
(* size 0                                                                   *)
WriteArrayStep ==
  \E client \in BOOLEAN, regs \in BOOLEAN, rows \in Programs,
     size \in 0..MaxProgLen, F \in SUBSET (1..MaxProgLen) :
    /\ size \in {0, Len(rows)}
    /\ (~client \/ ~regs \/ size = 0) => F = {}
    /\ (~client \/ ~regs) => size = Len(rows)
    /\ WriteArray(client, regs, rows, size, F)

(* the two flip controls and one the driver does not handle *)
CtrlIds == {"V4L2_CID_VFLIP", "V4L2_CID_HFLIP", "V4L2_CID_BRIGHTNESS"}

(* the values of a flip control, and one outside its range *)
CtrlVals == {0, 1, 2}

(* failing accesses of a flip control: none, the page select, the read,     *)
(* the write-back                                                           *)
CtrlFailSets == {{}, {1}, {2}, {3}}

SCtrlStep ==
  \E id \in CtrlIds, val \in CtrlVals, F \in CtrlFailSets : SCtrl(id, val, F)

Init == InitWith({GoodChip})

Next ==
  \/ ProbeStep
  \/ EnumMbusCodeStep
  \/ EnumFrameSizeStep
  \/ GetFmtStep
  \/ SetFmtStep
  \/ SPowerStep
  \/ Return

Spec == Init /\ [][Next]_vars

(* The operations that dispatch bus accesses: probe, set_fmt, s_ctrl *)
CtrlNext == ProbeStep \/ SetFmtStep \/ SCtrlStep \/ Return

SpecCtrl == Init /\ [][CtrlNext]_vars

(* a format caller (thread 1) and a control caller (thread 2) at the same   *)
(* time                                                                     *)
CallSetFmtStep == CallSetFmt(1, "YUYV8_2X8")

SetFmtLockStep == \E t \in Threads : SetFmtLock(t)

SetFmtCommitStep == \E t \in Threads : SetFmtCommit(t)

SetFmtWriteStep == \E t \in Threads : SetFmtWrite(t)

SetFmtUnlockStep == \E t \in Threads : SetFmtUnlock(t)

CallSCtrlStep ==
  \E id \in {"V4L2_CID_VFLIP", "V4L2_CID_HFLIP"} : CallSCtrl(2, id, 1)

SCtrlLockStep == \E t \in Threads : SCtrlLock(t)

SCtrlPageStep == \E t \in Threads : SCtrlPage(t)

SCtrlReadStep == \E t \in Threads : SCtrlRead(t)

SCtrlWriteStep == \E t \in Threads : SCtrlWrite(t)

SCtrlUnlockStep == \E t \in Threads : SCtrlUnlock(t)

FlipRaceNext ==
  \/ ProbeStep \/ Return
  \/ CallSetFmtStep \/ SetFmtLockStep \/ SetFmtCommitStep \/ SetFmtWriteStep
  \/ SetFmtUnlockStep
  \/ CallSCtrlStep \/ SCtrlLockStep \/ SCtrlPageStep \/ SCtrlReadStep
  \/ SCtrlWriteStep \/ SCtrlUnlockStep

SpecFlipRace == Init /\ [][FlipRaceNext]_vars

(* concurrent s_power callers *)
CallSPowerStep == \E t \in Threads, on \in {0, 1} : CallSPower(t, on)

SPowerTestStep == \E t \in Threads : SPowerTest(t)

SPowerSequenceStep == \E t \in Threads : SPowerSequence(t)

SPowerLoadStep == \E t \in Threads : SPowerLoad(t)

SPowerStoreStep == \E t \in Threads : SPowerStore(t)

PowerRaceNext ==
  \/ ProbeStep \/ Return
  \/ CallSPowerStep \/ SPowerTestStep \/ SPowerSequenceStep \/ SPowerLoadStep
  \/ SPowerStoreStep

SpecPowerRace == Init /\ [][PowerRaceNext]_vars

(* concurrent callers of the operations that take sensor->lock *)
CallSetFmtWhichStep ==
  \E t \in Threads, which \in Whichs, F \in {{}, {2}} :
    /\ which = V4L2_SUBDEV_FORMAT_TRY => F = {}
    /\ CallSetFmtWhich(t, t, which, "YUYV8_2X8", F)

CallGetFmtStep == \E t \in Threads, which \in Whichs : CallGetFmt(t, t, which)

GetFmtLockStep == \E t \in Threads : GetFmtLock(t)

GetFmtCopyStep == \E t \in Threads : GetFmtCopy(t)

GetFmtUnlockStep == \E t \in Threads : GetFmtUnlock(t)

CallEnumMbusCodeStep == \E t \in Threads : CallEnumMbusCode(t, 1)

EnumMbusCodeLockStep == \E t \in Threads : EnumMbusCodeLock(t)

EnumMbusCodeCopyStep == \E t \in Threads : EnumMbusCodeCopy(t)

EnumMbusCodeUnlockStep == \E t \in Threads : EnumMbusCodeUnlock(t)

CallEnumFrameSizeStep ==
  \E t \in Threads, c \in {"UYVY8_2X8", "RGB565_2X8_LE"} : CallEnumFrameSize(t, 0, c)

EnumFrameSizeLockStep == \E t \in Threads : EnumFrameSizeLock(t)

EnumFrameSizeFindStep == \E t \in Threads : EnumFrameSizeFind(t)

EnumFrameSizeUnlockStep == \E t \in Threads : EnumFrameSizeUnlock(t)

LockNext ==
  \/ ProbeStep \/ Return
  \/ CallSetFmtWhichStep \/ SetFmtLockStep \/ SetFmtCommitStep \/ SetFmtWriteStep
  \/ SetFmtUnlockStep
  \/ CallGetFmtStep \/ GetFmtLockStep \/ GetFmtCopyStep \/ GetFmtUnlockStep
  \/ CallEnumMbusCodeStep \/ EnumMbusCodeLockStep \/ EnumMbusCodeCopyStep
  \/ EnumMbusCodeUnlockStep
  \/ CallEnumFrameSizeStep \/ EnumFrameSizeLockStep \/ EnumFrameSizeFindStep
  \/ EnumFrameSizeUnlockStep

SpecLock == Init /\ [][LockNext]_vars

(* The same callers under the scheduling the kernel gives them: a thread   *)
(* that can take its next step inside a call takes it (it is runnable and  *)
(* the transport's calls return), and a thread waiting in mutex_lock gets  *)
(* the mutex if it is free again and again (mutex waiters are queued and   *)
(* the mutex is handed to the first of them).  Nothing makes a caller      *)
(* start a call.                                                           *)
RunsOn(t) ==
  \/ SetFmtCommit(t) \/ SetFmtWrite(t) \/ SetFmtUnlock(t)
  \/ GetFmtCopy(t) \/ GetFmtUnlock(t)
  \/ EnumMbusCodeCopy(t) \/ EnumMbusCodeUnlock(t)
  \/ EnumFrameSizeFind(t) \/ EnumFrameSizeUnlock(t)

TakesLock(t) ==
  \/ SetFmtLock(t) \/ GetFmtLock(t) \/ EnumMbusCodeLock(t) \/ EnumFrameSizeLock(t)

SpecLockLive ==
  /\ SpecLock
  /\ \A t \in Threads : WF_vars(RunsOn(t)) /\ SF_vars(TakesLock(t))

(* set_fmt, and set_fmt again with the format the first call returned *)
SetFmtAgainStep == \E F \in {{}, {1}} : (last.which = V4L2_SUBDEV_FORMAT_TRY => F = {}) /\ SetFmtAgain(F)

ResolveNext == ProbeStep \/ SetFmtStep \/ SetFmtAgainStep \/ Return

SpecResolve == Init /\ [][ResolveNext]_vars

(* set_fmt on pad 0 with each code of the format catalog and one it does   *)
(* not hold, the format patch failing or not, and get_fmt                  *)
AnyCodes == CatalogCodes \cup {"RGB565_2X8_LE"}

SetFmtAnyCodeStep ==
  \E s \in Sessions, which \in Whichs, c \in AnyCodes, F \in {{}, {InitWrites + 2}} :
    /\ which = V4L2_SUBDEV_FORMAT_TRY => F = {}
    /\ which = V4L2_SUBDEV_FORMAT_ACTIVE => s = 1
    /\ SetFmt(s, 0, which, Request(640, 480, c), F)

FormatsNext == ProbeStep \/ SetFmtAnyCodeStep \/ GetFmtStep \/ Return

SpecFormats == Init /\ [][FormatsNext]_vars

(* gc2145_find_mode on the sizes of the mode catalog, sizes next to them   *)
(* and sizes far from all of them                                          *)
FindWidths == {0, 1, 319, 320, 640, 800, 1600, 1601}

FindHeights == {0, 240, 241, 480, 600, 1200, 2000}

FindModeStep ==
  \E width \in FindWidths, height \in FindHeights, nearest \in BOOLEAN :
    FindMode(width, height, nearest)

FindModeNext == ProbeStep \/ FindModeStep \/ Return

SpecFindMode == Init /\ [][FindModeNext]_vars

(* active set_fmt calls whose writes all succeed, and s_power calls *)
SetFmtActiveStep ==
  \E c \in {"UYVY8_2X8", "YUYV8_2X8", "YVYU8_2X8"} :
    SetFmt(1, 0, V4L2_SUBDEV_FORMAT_ACTIVE, Request(800, 600, c), {})

PowerFmtNext == ProbeStep \/ SetFmtActiveStep \/ SPowerStep \/ Return

SpecPowerFmt == Init /\ [][PowerFmtNext]_vars

(***************************************************************************)
(* gc2145_s_power as a function of the struct gc2145_dev it is handed:     *)
(* the fields it reads (pwdn_gpio, reset_gpio, power_count) are drawn from *)
(* all their combinations, the rest is as attach leaves it.  After a       *)
(* successful attach both lines are present (gc2145_check_chip_id has run  *)
(* the power-on sequence, gc2145.c:2032); the combinations with a line     *)
(* missing are inputs of the function that the driver itself never builds. *)
(***************************************************************************)
InitSPower ==
  /\ lifecycle = "bound"
  /\ chip = GoodChip
  /\ has_pwdn \in BOOLEAN
  /\ has_reset \in BOOLEAN
  /\ pwdn \in {0, 1}
  /\ reset = 0
  /\ xclk = TRUE
  /\ hw = HwReset
  /\ fmt = DefaultFormat
  /\ current_mode = GC2145_MODE_SVGA_800_600
  /\ try_fmt = [s \in Sessions |-> ZeroFormat]
  /\ power_count \in 0..1
  /\ trace = << >>
  /\ last = NoCall
  /\ n_on = 0
  /\ n_off = 0
  /\ threads = [t \in Threads |-> NoThread]
  /\ mutexes = [sensor |-> 0, handler |-> 0]
  /\ power_log = [seqs |-> 0, ups |-> 0]

SPowerNext == SPowerStep \/ Return

SpecSPower == InitSPower /\ [][SPowerNext]_vars

(* the subdev operations called after gc2145_remove, each with arguments    *)
(* it accepts on a live sensor                                              *)
AfterRemoveStep ==
  /\ lifecycle = "removed"
  /\ \/ \E which \in Whichs : GetFmt(1, 0, which)
     \/ \E which \in Whichs : SetFmt(1, 0, which, Request(640, 480, "YUYV8_2X8"), {})
     \/ SPower(1)
     \/ SCtrl("V4L2_CID_VFLIP", 1, {})
     \/ EnumMbusCode(0, 1, "ZERO")
     \/ EnumFrameSize(0, 1, "UYVY8_2X8", <<0, 0>>)

TeardownNext == ProbeStep \/ Remove \/ AfterRemoveStep \/ UseAfterFree \/ Return

SpecTeardown == Init /\ [][TeardownNext]_vars

(* write_array applied to the programs of Programs *)
ArrayNext == ProbeStep \/ WriteArrayStep \/ Return

SpecArray == Init /\ [][ArrayNext]_vars

(* Identification exercised with every chip of ChipIds *)
IdentNext == ProbeStep \/ Return

SpecIdent == InitWith(ChipIds) /\ [][IdentNext]_vars

(***************************************************************************)
(* Vocabulary of the properties                                            *)
(***************************************************************************)
(* what a get_fmt(ACTIVE) on the valid pad returns in the current state *)
ActiveFormat == gc2145_get_fmt(1, 0, V4L2_SUBDEV_FORMAT_ACTIVE).out

(* (w, h) is the size of a mode catalog entry *)
IsModeSize(w, h) ==
  \E i \in 1..ARRAY_SIZE(gc2145_mode_list) :
    gc2145_mode_list[i].hact = w /\ gc2145_mode_list[i].vact = h

(* the code a request for code c resolves to *)
ResolvedCode(c) == IF c \in CatalogCodes THEN c ELSE gc2145_format_list[1].code

(* the line events of gc2145_set_power_on: power-down pulsed, reset pulsed *)
PowerOnSignals ==
  << Event("pwdn", 0, 1, TRUE), Event("pwdn", 0, 0, TRUE),
     Event("reset", 0, 1, TRUE), Event("reset", 0, 0, TRUE) >>

PadOps == {"enum_mbus_code", "enum_frame_size", "get_fmt", "set_fmt"}

(* the state of the sensor object and of the device *)
SensorState ==
  <<fmt, current_mode, try_fmt, power_count, pwdn, reset, xclk, hw>>

(***************************************************************************)
(* C1.  If a register write fails during an active set_fmt, the committed  *)
(* format a later get_fmt(ACTIVE) returns and the current mode are what    *)
(* they were before the call.                                              *)
(* The code stores the new format and mode before gc2145_params_set, so    *)
(* TLC refutes this.                                                       *)
(***************************************************************************)
C1_FailedActiveSetFmtKeepsCommitted ==
  [][(/\ last'.op = "set_fmt"
      /\ last'.pad = 0
      /\ last'.which = V4L2_SUBDEV_FORMAT_ACTIVE
      /\ last'.ret # 0)
     => (ActiveFormat' = ActiveFormat /\ current_mode' = current_mode)]_vars

(* an active set_fmt whose first write failed, with the requested code      *)
(* committed although the sensor's output format register still holds its   *)
(* reset value                                                              *)
C1_FailedButCommitted ==
  /\ last.op = "set_fmt"
  /\ last.which = V4L2_SUBDEV_FORMAT_ACTIVE
  /\ last.ret = -EREMOTEIO
  /\ Len(trace) = 1
  /\ ~trace[1].ok
  /\ last.req.code = "YUYV8_2X8"
  /\ ActiveFormat.code = "YUYV8_2X8"

(***************************************************************************)
(* C2.  After a power-on, an active set_fmt without transport failure for  *)
(* a size that is a mode catalog entry makes get_fmt(ACTIVE) return the    *)
(* requested width and height, with the requested code if the catalog      *)
(* holds it and the default code otherwise.                                *)
(* The code overwrites the requested size with 800x600, so TLC refutes     *)
(* this.                                                                   *)
(***************************************************************************)
C2_ActiveSetFmtReturnsRequestedSize ==
  (/\ last.op = "set_fmt"
   /\ last.pad = 0
   /\ last.which = V4L2_SUBDEV_FORMAT_ACTIVE
   /\ last.ret = 0
   /\ power_count >= 1
   /\ IsModeSize(last.req.width, last.req.height))
  => /\ ActiveFormat.width = last.req.width
     /\ ActiveFormat.height = last.req.height
     /\ ActiveFormat.code = ResolvedCode(last.req.code)

(* a successful active set_fmt for 640x480 YUYV after which get_fmt(ACTIVE) *)
(* returns 800x600                                                          *)
C2_Got800x600 ==
  /\ last.op = "set_fmt"
  /\ last.pad = 0
  /\ last.which = V4L2_SUBDEV_FORMAT_ACTIVE
  /\ last.ret = 0
  /\ power_count >= 1
  /\ last.req.width = 640 /\ last.req.height = 480 /\ last.req.code = "YUYV8_2X8"
  /\ ActiveFormat.width = 800 /\ ActiveFormat.height = 600
  /\ ActiveFormat.code = "YUYV8_2X8"

(***************************************************************************)
(* C3.  A set_fmt on the valid pad, trial or active, never fails on format *)
(* resolution: a code the catalog does not hold resolves to entry 0        *)
(* (UYVY8_2X8), a code of the catalog to itself; that code is returned and *)
(* stored in the format the call writes.                                   *)
(***************************************************************************)
C3_SetFmtResolvesCode ==
  (last.op = "set_fmt" /\ last.pad = 0)
  => /\ last.ret # -EINVAL
     /\ last.out.code = ResolvedCode(last.req.code)
     /\ last.req.code \notin CatalogCodes => last.out.code = "UYVY8_2X8"
     /\ last.which = V4L2_SUBDEV_FORMAT_TRY => try_fmt[last.sess].code = last.out.code
     /\ last.which = V4L2_SUBDEV_FORMAT_ACTIVE => fmt.code = last.out.code

(* a trial set_fmt with a code outside the catalog that returned UYVY8_2X8 *)
C3_FellBackToEntry0 ==
  /\ last.op = "set_fmt"
  /\ last.pad = 0
  /\ last.which = V4L2_SUBDEV_FORMAT_TRY
  /\ last.req.code = "RGB565_2X8_LE"
  /\ last.ret = 0
  /\ last.out.code = "UYVY8_2X8"

(***************************************************************************)
(* C4.  On a pad other than 0 each of enum_mbus_code, enum_frame_size,     *)
(* get_fmt and set_fmt fails with -EINVAL, dispatches no bus access and    *)
(* leaves the sensor state and the caller's output as they were.           *)
(* gc2145_enum_frame_size does not look at the pad, so TLC refutes this.   *)
(***************************************************************************)
C4_BadPadFails ==
  [][(last'.op \in PadOps /\ last'.pad # 0)
     => /\ last'.ret = -EINVAL
        /\ BusEvents(trace') = << >>
        /\ SensorState' = SensorState
        /\ last'.fse = FseZero
        /\ last'.op = "enum_mbus_code" => last'.code = last'.req.code
        /\ last'.op = "set_fmt" => last'.out = last'.req
        /\ last'.op = "get_fmt" => last'.out = ZeroFormat]_vars

(* enum_frame_size on pad 1 that succeeded and filled in 320x240 *)
C4_EnumFrameSizeOnPad1 ==
  /\ last.op = "enum_frame_size"
  /\ last.pad = 1
  /\ last.index = 0
  /\ last.ret = 0
  /\ last.fse.max_width = 320
  /\ last.fse.max_height = 240

(***************************************************************************)
(* C5.  A trial set_fmt dispatches no bus read or write and leaves the     *)
(* committed format, the current mode and the sensor untouched; it writes  *)
(* the try format of the caller's session, which is the format it returns, *)
(* and no other session's.                                                 *)
(***************************************************************************)
C5_TrialSetFmtTouchesOnlyTryFormat ==
  [][(/\ last'.op = "set_fmt"
      /\ last'.pad = 0
      /\ last'.which = V4L2_SUBDEV_FORMAT_TRY)
     => /\ BusEvents(trace') = << >>
        /\ fmt' = fmt
        /\ current_mode' = current_mode
        /\ hw' = hw
        /\ try_fmt'[last'.sess] = last'.out
        /\ \A s \in Sessions \ {last'.sess} : try_fmt'[s] = try_fmt[s]]_vars

(* a trial set_fmt that left a try format differing from the committed      *)
(* format and from the other session's                                      *)
C5_TrialDiffersFromCommitted ==
  /\ last.op = "set_fmt"
  /\ last.pad = 0
  /\ last.which = V4L2_SUBDEV_FORMAT_TRY
  /\ last.ret = 0
  /\ try_fmt[last.sess] = last.out
  /\ try_fmt[last.sess].code # fmt.code
  /\ \E s \in Sessions \ {last.sess} : try_fmt[s] # try_fmt[last.sess]

(***************************************************************************)
(* C6.  s_power(off) powers the device off (power-down asserted, clock     *)
(* disabled) exactly when power_count goes from 1 to 0; with power_count   *)
(* >= 2 before the call no line changes.                                   *)
(* At power_count = 1 the code runs gc2145_set_power_on, and nothing in    *)
(* s_power calls gc2145_set_power_off, so TLC refutes this.                *)
(***************************************************************************)
C6_PowerOffAtLastReference ==
  [][(last'.op = "s_power" /\ last'.on = 0)
     => /\ power_count = 1 => (pwdn' = 1 /\ ~xclk')
        /\ power_count # 1 => (pwdn' = pwdn /\ xclk' = xclk)
        /\ power_count >= 2 => SignalEvents(trace') = << >>]_vars

(* the last reference dropped, the power-on sequence run, the device still  *)
(* powered                                                                  *)
C6_StillPoweredAtZero ==
  /\ last.op = "s_power"
  /\ last.on = 0
  /\ last.ret = 0
  /\ power_count = 0
  /\ SignalEvents(trace) = PowerOnSignals
  /\ pwdn = 0
  /\ xclk

(***************************************************************************)
(* C7.  s_power(on) runs the power-on/reset sequence exactly when          *)
(* power_count is 0 before the call; with power_count >= 1 it changes no   *)
(* power or reset line and only increments the count.                      *)
(***************************************************************************)
C7_PowerOnSequenceOnlyFromZero ==
  [][(last'.op = "s_power" /\ last'.on # 0)
     => /\ power_count = 0 => SignalEvents(trace') = PowerOnSignals
        /\ power_count # 0 => SignalEvents(trace') = << >>
        /\ power_count >= 1 => /\ pwdn' = pwdn /\ reset' = reset /\ xclk' = xclk
                               /\ hw' = hw
                               /\ power_count' = power_count + 1]_vars

(* a second power-on: the count is 2 and no line was touched *)
C7_SecondPowerOn ==
  /\ last.op = "s_power"
  /\ last.on = 1
  /\ last.ret = 0
  /\ power_count = 2
  /\ n_on = 2
  /\ trace = << >>

(***************************************************************************)
(* C8.  After any sequence of s_power calls power_count is the number of   *)
(* successful power-on calls minus the number of power-off calls; after    *)
(* on, on, off it is 1 and the device is still powered.                    *)
(***************************************************************************)
C8_PowerCountIsOnMinusOff ==
  lifecycle = "bound"
  => /\ power_count = n_on - n_off
     /\ (n_on = 2 /\ n_off = 1) => (power_count = 1 /\ pwdn = 0 /\ xclk)

(* on, on, off: the off is the last of the three calls *)
C8_OnOnOff ==
  /\ last.op = "s_power"
  /\ last.on = 0
  /\ n_on = 2
  /\ n_off = 1
  /\ power_count = 1
  /\ pwdn = 0
  /\ xclk

C10_OnlyTheRightChipIsAccepted ==
  (last.op = "probe" /\ last.powered_on)
  => /\ last.id_ret = 0 => last.chip_id = GoodChip
     /\ last.chip_id # GoodChip => last.id_ret = -ENXIO

(* both bytes read without a transport failure, the low byte wrong, the     *)
(* chip accepted                                                            *)
C10_WrongLowByteAccepted ==
  /\ last.op = "probe"
  /\ last.powered_on
  /\ BusEvents(trace)[1].ok
  /\ BusEvents(trace)[2].ok
  /\ last.chip_id = <<33, 0>>
  /\ chip = <<33, 0>>
  /\ last.id_ret = 0


(***************************************************************************)
(* C11.  Whenever identification fails, whatever the cause (wrong chip     *)
(* identifier, or the power-down or reset step of the power-on failing),   *)
(* the device ends de-powered: power-down asserted and the reference       *)
(* clock disabled.                                                         *)
(* gc2145_check_chip_id powers off only after a wrong identifier; when     *)
(* gc2145_set_power_on fails it returns at once, so TLC refutes this.      *)
(***************************************************************************)
C11_FailedIdentificationDePowers ==
  (last.op = "probe" /\ last.id_ret # 0) => (pwdn = 1 /\ ~xclk)

(* identification failed in the reset step (no reset line): power-down was  *)
(* pulsed and released, the clock is still enabled                          *)
C11_LeftPoweredAfterResetFailure ==
  /\ last.op = "probe"
  /\ last.id_ret = -1
  /\ has_pwdn
  /\ ~has_reset
  /\ pwdn = 0
  /\ xclk


(***************************************************************************)
(* C12.  A transport error on a bus access of identification (either       *)
(* chip-ID read), of an active set_fmt (any write) or of a flip control    *)
(* (page select, read, write-back) makes the operation return an error,    *)
(* and the failed access is not dispatched again.                          *)
(* gc2145_check_chip_id ignores what its two reads return, so TLC refutes  *)
(* this.                                                                   *)
(***************************************************************************)
(* some bus access among the positions P of the operation's accesses failed *)
AccessFailed(P) ==
  \E i \in P \cap (1..Len(BusEvents(trace))) : ~BusEvents(trace)[i].ok

(* no access that failed is dispatched a second time *)
NotRetried ==
  LET bus == BusEvents(trace) IN
  \A i \in 1..Len(bus) : \A j \in (i + 1)..Len(bus) :
    ~bus[i].ok => ~(bus[j].k = bus[i].k /\ bus[j].a = bus[i].a)

C12_TransportErrorSurfaces ==
  /\ (last.op = "probe" /\ AccessFailed({1, 2})) => last.id_ret # 0
  /\ (last.op = "probe" /\ AccessFailed(1..Len(trace))) => last.ret # 0
  /\ (last.op \in {"set_fmt", "s_ctrl"} /\ AccessFailed(1..Len(trace))) => last.ret # 0
  /\ NotRetried

(* the read of the low identifier byte failed and identification succeeded *)
C12_FailedReadAccepted ==
  /\ last.op = "probe"
  /\ Len(BusEvents(trace)) >= 2
  /\ BusEvents(trace)[1].ok
  /\ ~BusEvents(trace)[2].ok
  /\ last.id_ret = 0


(***************************************************************************)
(* Vocabulary of the write_array claims                                    *)
(***************************************************************************)
(* the call of write_array just made passed its argument checks *)
ArrayApplied == last.op = "write_array" /\ last.client /\ last.regs /\ last.size > 0

(* the rows handed over, and those of them that are writes, in order *)
GivenRows == SubSeq(last.rows, 1, last.size)

GivenWrites == SelectSeq(GivenRows, IsWriteRow)

IsSentinelRow(row) == ~IsWriteRow(row)

GivenDelays == SelectSeq(GivenRows, IsSentinelRow)

(* the writes of the program the transport was told to fail *)
FailingWrites == last.F \cap (1..Len(GivenWrites))

IsDelayEvent(e) == e.k = "mdelay"

DelayEvents(tr) == SelectSeq(tr, IsDelayEvent)

RECURSIVE SumOfDelays(_)
SumOfDelays(tr) == IF tr = << >> THEN 0 ELSE Head(tr).v + SumOfDelays(Tail(tr))

RECURSIVE SumOfRows(_)
SumOfRows(rows) == IF rows = << >> THEN 0 ELSE Head(rows)[2] + SumOfRows(Tail(rows))

(***************************************************************************)
(* C13.  For every register program and every failing position k,          *)
(* write_array dispatches exactly the non-sentinel rows, in order, up to   *)
(* and including write k, each once, dispatches nothing after it and       *)
(* returns the transport's error; with no failure it dispatches every      *)
(* non-sentinel row in order and returns 0.  (The last conjunct says that  *)
(* the loop and the closed form gc2145_write_array used for the init       *)
(* program are the same function.)                                         *)
(***************************************************************************)
C13_WriteArrayStopsAtFirstFailure ==
  [][(last'.op = "write_array") =>
       LET bus    == BusEvents(trace')
           writes == SelectSeq(SubSeq(last'.rows, 1, last'.size), IsWriteRow)
           fails  == last'.F \cap (1..Len(writes))
           k      == IF fails = {} THEN Len(writes)
                     ELSE CHOOSE f \in fails : \A g \in fails : f <= g
           closed == gc2145_write_array(Start, last'.F, last'.client, last'.regs,
                                        last'.rows, last'.size)
       IN /\ (last'.client /\ last'.regs /\ last'.size > 0) =>
               /\ Len(bus) = k
               /\ \A i \in 1..k :
                    bus[i] = Event("w", writes[i][1], writes[i][2], i \notin fails)
               /\ fails # {} => /\ last'.ret = -EREMOTEIO
                                /\ trace'[Len(trace')] = bus[k]
               /\ fails = {} => last'.ret = 0
          /\ closed.ret = last'.ret
          /\ closed.d.trace = trace'
          /\ closed.d.hw = hw'
    ]_vars

(* the second of three writes failed: two writes dispatched, the third not *)
C13_SecondWriteFailed ==
  /\ ArrayApplied
  /\ Len(GivenWrites) = 3
  /\ FailingWrites = {2}
  /\ Len(BusEvents(trace)) = 2
  /\ last.ret = -EREMOTEIO


(***************************************************************************)
(* C14.  write_array never hands a sentinel row (address 0xFF) to the      *)
(* transport; each sentinel row it comes to only adds a delay of the       *)
(* row's value in milliseconds.  A program of sentinel rows only makes no  *)
(* bus write, and its total delay is the sum of the rows' values.          *)
(***************************************************************************)
C14_SentinelRowsOnlyDelay ==
  ArrayApplied =>
    LET delays == DelayEvents(trace) IN
    /\ \A i \in 1..Len(trace) : trace[i].k = "w" => trace[i].a # GC2145_REG_NULL
    /\ Len(delays) <= Len(GivenDelays)
    /\ \A i \in 1..Len(delays) : delays[i].v = GivenDelays[i][2]
    /\ FailingWrites = {} => Len(delays) = Len(GivenDelays)
    /\ GivenWrites = << >> =>
         /\ BusEvents(trace) = << >>
         /\ SumOfDelays(delays) = SumOfRows(GivenRows)
         /\ last.ret = 0

(* a program of two sentinel rows of different values was applied *)
C14_OnlySentinels ==
  /\ ArrayApplied
  /\ GivenRows = <<(<<255, 5>>), (<<255, 2>>)>>
  /\ BusEvents(trace) = << >>
  /\ SumOfDelays(DelayEvents(trace)) = 7


(***************************************************************************)
(* C15.  write_array called with an empty program (size 0), with no        *)
(* program or with no transport returns -EINVAL before any bus access or   *)
(* delay.                                                                  *)
(***************************************************************************)
C15_BadArgumentsRejectedFirst ==
  (last.op = "write_array" /\ (~last.client \/ ~last.regs \/ last.size = 0)) =>
    (last.ret = -EINVAL /\ trace = << >>)

(* an array of rows was passed with size 0 *)
C15_SizeZero ==
  /\ last.op = "write_array"
  /\ last.client
  /\ last.regs
  /\ last.rows # << >>
  /\ last.size = 0
  /\ last.ret = -EINVAL


(***************************************************************************)
(* Vocabulary of the flip-control claims                                   *)
(***************************************************************************)
FlipControls == {"V4L2_CID_VFLIP", "V4L2_CID_HFLIP"}

(* the bit of register 0x17 a flip control owns (masks 0x02 and 0x01) *)
FlipBit(id) == IF id = "V4L2_CID_VFLIP" THEN 1 ELSE 0

(* the operation wrote register 0x17 *)
WroteFlipRegister ==
  \E i \in 1..Len(trace) : trace[i].k = "w" /\ trace[i].a = GC2145_REG_FLIP

(***************************************************************************)
(* C16.  A successful s_ctrl(VFLIP, v) selects page 0, reads register 0x17 *)
(* and writes back the value just read with only bit 1 set (v = 1) or      *)
(* cleared (v = 0); s_ctrl(HFLIP, v) does the same for bit 0 only.  Every  *)
(* other bit written equals the bit read (the register's content when the  *)
(* call started), so the two flips are independent.                        *)
(***************************************************************************)
C16_FlipTouchesOneBit ==
  [][(last'.op = "s_ctrl" /\ last'.ret = 0 /\ last'.ctrl \in FlipControls) =>
       LET bus == BusEvents(trace')
           b   == FlipBit(last'.ctrl)
       IN /\ Len(bus) = 3
          /\ bus[1] = Event("w", GC2145_REG_PAGE_SELECT, 0, TRUE)
          /\ bus[2] = Event("r", GC2145_REG_FLIP, 0, TRUE)
          /\ bus[3].k = "w" /\ bus[3].a = GC2145_REG_FLIP /\ bus[3].ok
          /\ Bit(bus[3].v, b) = last'.val
          /\ \A j \in (0..7) \ {b} : Bit(bus[3].v, j) = Bit(hw.flip, j)
          /\ hw'.flip = bus[3].v
    ]_vars

(* hflip was switched on while register 0x17 held 0x14: 0x15 was written *)
C16_HflipSetBit0 ==
  /\ last.op = "s_ctrl"
  /\ last.ctrl = "V4L2_CID_HFLIP"
  /\ last.val = 1
  /\ last.ret = 0
  /\ Len(BusEvents(trace)) = 3
  /\ BusEvents(trace)[3].v = 21
  /\ hw.flip = 21


SetFmtInFlight(t) ==
  /\ threads[t].op = "set_fmt"
  /\ threads[t].pc = "write"
  /\ threads[t].k > 1

(* this step dispatches a bus access of a flip control: the page select,   *)
(* the read or the write-back                                              *)
FlipAccessDispatched ==
  \E u \in Threads :
    /\ threads[u].op = "s_ctrl"
    /\ threads[u].pc \in {"page", "read", "write"}
    /\ threads'[u].pc # threads[u].pc

(* no caller is inside the driver *)
AllReturned == \A t \in Threads : threads[t].op = "none"

(***************************************************************************)
(* C18.  No register access of a flip control (page-select write, read,    *)
(* write-back of 0x17) is dispatched between the first and the last        *)
(* register write of a concurrently running active set_fmt.                *)
(* gc2145_s_ctrl runs under the control handler's own lock, not under      *)
(* sensor->lock, so TLC refutes this.                                      *)
(***************************************************************************)
C18_FlipSerializedWithSetFmt ==
  [][FlipAccessDispatched => ~(\E t \in Threads : SetFmtInFlight(t))]_vars

(* a vflip switched on while set_fmt was programming the sensor: its       *)
(* accesses went out with another page selected, the call is complete and  *)
(* bit 1 of register 0x17 is still clear                                   *)
C18_FlipLostInsideSetFmt ==
  /\ SetFmtInFlight(1)
  /\ threads[2].op = "s_ctrl"
  /\ threads[2].pc = "unlock"
  /\ threads[2].ctrl = "V4L2_CID_VFLIP"
  /\ threads[2].val = 1
  /\ Bit(hw.flip, 1) = 0


(***************************************************************************)
(* C19.  Under every interleaving of concurrent s_power calls, once every  *)
(* call has returned power_count equals the s_power(on) calls that         *)
(* returned 0 minus the s_power(off) calls, and s_power(on) has run the    *)
(* power-on sequence once for each 0-to-1 transition of power_count.       *)
(* The lock around gc2145_s_power is commented out, so two callers test    *)
(* and update power_count at the same time and TLC refutes this.           *)
(***************************************************************************)
C19_PowerCountConsistentWhenQuiet ==
  AllReturned =>
    /\ power_count = n_on - n_off
    /\ power_log.seqs = power_log.ups

(* two s_power(1) calls have returned 0, both ran the power-on sequence,    *)
(* and power_count is 1                                                     *)
C19_LostPowerOn ==
  /\ AllReturned
  /\ n_on = 2
  /\ n_off = 0
  /\ power_log.seqs = 2
  /\ power_count = 1


(***************************************************************************)
(* The error kinds of the specification's taxonomy, by the errno the       *)
(* driver returns for them: -EINVAL is what a bad pad, a bad control value *)
(* and a malformed program return (InvalidArgument), -ENXIO what a wrong   *)
(* chip returns (DeviceNotFound), -EREMOTEIO what a failed transfer        *)
(* returns (TransportError).  The driver has no errno of its own for       *)
(* NotFound.                                                               *)
(***************************************************************************)
ErrorKind(ret) ==
  IF ret = 0 THEN "Success"
  ELSE IF ret = -EINVAL THEN "InvalidArgument"
  ELSE IF ret = -ENXIO THEN "DeviceNotFound"
  ELSE IF ret = -EREMOTEIO THEN "TransportError"
  ELSE "Other"

(* enum_mbus_code on pad 0: below the catalog size it returns 0 and the    *)
(* entry's code, at or past it it fails with an error of the given kind    *)
(* and leaves code->code alone; the sensor and the driver's state are not  *)
(* touched                                                                 *)
EnumMbusCodeContract(kind) ==
  (last'.op = "enum_mbus_code" /\ last'.pad = 0) =>
    /\ last'.index < ARRAY_SIZE(gc2145_format_list) =>
         /\ last'.ret = 0
         /\ last'.code = gc2145_format_list[last'.index + 1].code
    /\ last'.index >= ARRAY_SIZE(gc2145_format_list) =>
         /\ ErrorKind(last'.ret) = kind
         /\ last'.code = last'.req.code
    /\ UNCHANGED <<lifecycle, pwdn, reset, xclk, hw, fmt, current_mode, try_fmt,
                   power_count>>
    /\ trace' = << >>

(***************************************************************************)
(* C20.  enum_mbus_code(index) on pad 0 returns the code of catalog entry  *)
(* index for every index below the catalog size (6) and fails with         *)
(* InvalidArgument (-EINVAL, the error of a bad pad) for every index at or *)
(* past the catalog size, changing no state.                               *)
(***************************************************************************)
C20_EnumMbusCodeByIndex == [][EnumMbusCodeContract("InvalidArgument")]_vars

(* C20 as stated: an index at or past the catalog size fails with NotFound *)
C20_PastEndIsNotFound == [][EnumMbusCodeContract("NotFound")]_vars

(* index 6 on pad 0 was refused with -EINVAL *)
C20_IndexSixRefused ==
  /\ last.op = "enum_mbus_code"
  /\ last.pad = 0
  /\ last.index = ARRAY_SIZE(gc2145_format_list)
  /\ last.ret = -EINVAL


(***************************************************************************)
(* C21.  enum_frame_size(index, code) fails with -EINVAL for every code    *)
(* that is not in the format catalog; for a catalog code and an index      *)
(* within the mode catalog it returns min_width = max_width = hact and     *)
(* min_height = max_height = vact of gc2145_mode_list[index].              *)
(***************************************************************************)
C21_EnumFrameSizeByCodeAndIndex ==
  last.op = "enum_frame_size" =>
    /\ last.req.code \notin CatalogCodes =>
         (last.ret = -EINVAL /\ last.fse = FseZero)
    /\ (last.req.code \in CatalogCodes /\ last.index < ARRAY_SIZE(gc2145_mode_list)) =>
         LET mode == gc2145_mode_list[last.index + 1] IN
         /\ last.ret = 0
         /\ last.fse = [min_width |-> mode.hact, max_width |-> mode.hact,
                        min_height |-> mode.vact, max_height |-> mode.vact]

(* a code outside the catalog was refused at an index that has a mode *)
C21_UnknownCodeRefused ==
  /\ last.op = "enum_frame_size"
  /\ last.pad = 0
  /\ last.index = 3
  /\ last.req.code = "RGB565_2X8_LE"
  /\ last.ret = -EINVAL


(***************************************************************************)
(* C22.  A trial set_fmt in one session changes neither the committed      *)
(* format nor the try format of any other session; get_fmt(TRY) in a       *)
(* session returns that session's try format, which only a trial set_fmt   *)
(* of the same session changes, to the format that call returned (so it    *)
(* is what the session's most recent trial set_fmt stored);                *)
(* get_fmt(ACTIVE) returns the committed format.                           *)
(***************************************************************************)
C22_TryFormatIsPerSession ==
  [][/\ (last'.op = "set_fmt" /\ last'.which = V4L2_SUBDEV_FORMAT_TRY) =>
          /\ fmt' = fmt
          /\ \A s \in Sessions \ {last'.sess} : try_fmt'[s] = try_fmt[s]
     /\ \A s \in Sessions :
          try_fmt'[s] # try_fmt[s] =>
            /\ last'.op = "set_fmt"
            /\ last'.which = V4L2_SUBDEV_FORMAT_TRY
            /\ last'.sess = s
            /\ last'.ret = 0
            /\ try_fmt'[s] = last'.out
     /\ (last'.op = "get_fmt" /\ last'.pad = 0) =>
          /\ last'.ret = 0
          /\ last'.which = V4L2_SUBDEV_FORMAT_TRY => last'.out = try_fmt[last'.sess]
          /\ last'.which = V4L2_SUBDEV_FORMAT_ACTIVE => last'.out = fmt
          /\ UNCHANGED <<fmt, try_fmt>>
    ]_vars

(* get_fmt(TRY) in session 2 returned a try format that is neither the     *)
(* committed format nor session 1's try format                             *)
C22_GotOwnTryFormat ==
  /\ last.op = "get_fmt"
  /\ last.pad = 0
  /\ last.which = V4L2_SUBDEV_FORMAT_TRY
  /\ last.sess = 2
  /\ last.out = try_fmt[2]
  /\ last.out.code = "YUYV8_2X8"
  /\ fmt.code = "UYVY8_2X8"
  /\ try_fmt[1] # try_fmt[2]


(***************************************************************************)
(* C23.  After gc2145_remove every later operation (get_fmt, set_fmt,      *)
(* s_power, s_ctrl, enum_mbus_code, enum_frame_size) is refused: it        *)
(* returns an error, dispatches nothing to the transport and changes none  *)
(* of the sensor's state.                                                  *)
(* No operation tests whether the sensor has been removed, so TLC refutes  *)
(* this.                                                                   *)
(***************************************************************************)
EngineOps == {"get_fmt", "set_fmt", "s_power", "s_ctrl", "enum_mbus_code", "enum_frame_size"}

C23_RefusedAfterRemove ==
  [][(lifecycle = "removed" /\ last'.op \in EngineOps) =>
       /\ last'.ret # 0
       /\ trace' = << >>
       /\ UNCHANGED <<pwdn, reset, xclk, hw, fmt, current_mode, try_fmt, power_count>>
    ]_vars

(* an active set_fmt after remove returned 0, having programmed the sensor *)
(* and stored the committed format                                         *)
C23_SetFmtAfterRemove ==
  /\ lifecycle = "removed"
  /\ last.op = "set_fmt"
  /\ last.which = V4L2_SUBDEV_FORMAT_ACTIVE
  /\ last.ret = 0
  /\ Len(BusEvents(trace)) = InitWrites + 2
  /\ fmt.code = "YUYV8_2X8"


(***************************************************************************)
(* C24.  set_fmt resolution is idempotent: a set_fmt given the format a    *)
(* set_fmt returned (same "which") resolves to the same mode and returns   *)
(* the same width, height, code and derived fields, and stores the same    *)
(* format where the first call stored it.                                  *)
(***************************************************************************)
C24_SetFmtResolutionIdempotent ==
  [][last'.op = "set_fmt_again" =>
       /\ last'.req = last.out
       /\ last'.out = last.out
       /\ last'.mode = last.mode
       /\ last'.which = V4L2_SUBDEV_FORMAT_TRY => try_fmt' = try_fmt
       /\ last'.which = V4L2_SUBDEV_FORMAT_ACTIVE =>
            (fmt' = fmt /\ current_mode' = current_mode)
    ]_vars

(* the format resolved from a 640x480 request with a code outside the      *)
(* catalog was handed back and came out unchanged                          *)
C24_ResolvedTwice ==
  /\ last.op = "set_fmt_again"
  /\ last.which = V4L2_SUBDEV_FORMAT_TRY
  /\ last.ret = 0
  /\ last.req = last.out
  /\ last.out.code = "UYVY8_2X8"
  /\ last.out.width = 800
  /\ last.mode = GC2145_MODE_SVGA_800_600


(***************************************************************************)
(* C25.  On the active set_fmt path the transport sees, in order, every    *)
(* non-sentinel write of the init program in program order, then a write   *)
(* of 0 to the page-select register 0xFE, then one write to the output     *)
(* format register 0x84 carrying the patch value of the resolved format,   *)
(* and nothing else (no per-mode program); the first failed write is the   *)
(* last access dispatched and its error is returned.                       *)
(***************************************************************************)
(* the output format patch of a catalog code *)
FormatPatch(code) == gc2145_format_list[gc2145_find_pixfmt(code) + 1].fmt_reg[1]

C25_ActiveSetFmtWriteOrder ==
  (last.op = "set_fmt" /\ last.pad = 0 /\ last.which = V4L2_SUBDEV_FORMAT_ACTIVE) =>
    LET bus == BusEvents(trace)
        expected == InitWriteRows \o <<(<<GC2145_REG_PAGE_SELECT, 0>>),
                                       FormatPatch(last.out.code)>>
    IN /\ FormatPatch(last.out.code)[1] = GC2145_REG_OUTPUT_FORMAT
       /\ Len(bus) <= Len(expected)
       /\ \A i \in 1..Len(bus) :
            /\ bus[i].k = "w"
            /\ bus[i].a = expected[i][1]
            /\ bus[i].v = expected[i][2]
            /\ i < Len(bus) => bus[i].ok
       /\ last.ret = 0 <=> (Len(bus) = Len(expected) /\ bus[Len(bus)].ok)
       /\ last.ret # 0 => (~bus[Len(bus)].ok /\ last.ret = -EREMOTEIO)

(* the page select after the init program failed: the patch was not sent *)
C25_PageSelectFailed ==
  /\ last.op = "set_fmt"
  /\ last.pad = 0
  /\ last.which = V4L2_SUBDEV_FORMAT_ACTIVE
  /\ last.ret = -EREMOTEIO
  /\ Len(BusEvents(trace)) = InitWrites + 1


(***************************************************************************)
(* Vocabulary of the power-on claim                                        *)
(***************************************************************************)
(* the operation ran gc2145_set_power_on first thing: probe (through       *)
(* gc2145_check_chip_id) and an s_power whose test at 1874 held            *)
PowerOnRan == last.op = "probe" \/ (last.op = "s_power" /\ last.powered_on)

(* power-down pulsed with its two delays *)
PowerDownPulse ==
  << Event("pwdn", 0, 1, TRUE), Event("udelay", 0, 100, TRUE),
     Event("pwdn", 0, 0, TRUE), Event("udelay", 0, 100, TRUE) >>

(* reset pulsed with its two delays *)
ResetPulse ==
  << Event("reset", 0, 1, TRUE), Event("udelay", 0, 100, TRUE),
     Event("reset", 0, 0, TRUE), Event("udelay", 0, 100, TRUE) >>

(* the first n events of the operation, or all of them if there are fewer *)
FirstEvents(n) == SubSeq(trace, 1, IF Len(trace) < n THEN Len(trace) ELSE n)

(***************************************************************************)
(* C26.  Every power-on drives, in this order, power-down asserted,        *)
(* power-down deasserted, reset asserted, reset deasserted, with a delay   *)
(* after each edge, and so ends with both lines deasserted; without a      *)
(* power-down line no line is driven (the reset pulse is not issued) and   *)
(* the power-on fails; without a reset line the power-on fails after the   *)
(* power-down pulse.                                                       *)
(***************************************************************************)
C26_PowerOnOrder ==
  PowerOnRan =>
    /\ (has_pwdn /\ has_reset) =>
         /\ FirstEvents(8) = PowerDownPulse \o ResetPulse
         /\ last.op = "s_power" => (trace = PowerDownPulse \o ResetPulse
                                    /\ pwdn = 0 /\ reset = 0 /\ last.ret = 0)
    /\ ~has_pwdn =>
         /\ trace = << >>
         /\ last.ret # 0
         /\ last.op = "probe" => (last.id_ret = -1 /\ lifecycle = "probe_failed")
    /\ (has_pwdn /\ ~has_reset) =>
         /\ trace = PowerDownPulse
         /\ last.ret # 0
         /\ last.op = "probe" => (last.id_ret = -1 /\ lifecycle = "probe_failed")

(* an s_power(1) at count 0 ran the whole sequence *)
C26_PoweredOnBySPower ==
  /\ last.op = "s_power"
  /\ last.on = 1
  /\ last.powered_on
  /\ last.ret = 0
  /\ trace = PowerDownPulse \o ResetPulse
  /\ pwdn = 0
  /\ reset = 0


(***************************************************************************)
(* C27.  No register write is dispatched before identification has         *)
(* succeeded: in probe every write comes after the two chip-ID reads, both *)
(* of which went through and found the GC2145; if the chip on the bus is   *)
(* not the GC2145, probe fails and dispatches no write.                    *)
(* The writes do come after the two reads and only when                    *)
(* gc2145_check_chip_id returns 0, but it returns 0 for chips that are not *)
(* the GC2145 and after failed reads, so TLC refutes this.                 *)
(***************************************************************************)
C27_NoWriteBeforeIdentified ==
  last.op = "probe" =>
    LET bus == BusEvents(trace)
        writes == {i \in 1..Len(bus) : bus[i].k = "w"}
    IN /\ writes # {} =>
            /\ \A i \in writes : i > 2
            /\ bus[1] = Event("r", GC2145_REG_CHIP_ID_H, 0, TRUE)
            /\ bus[2] = Event("r", GC2145_REG_CHIP_ID_L, 0, TRUE)
            /\ chip = GoodChip
            /\ last.id_ret = 0
       /\ last.id_ret # 0 => (writes = {} /\ last.ret # 0 /\ lifecycle = "probe_failed")
       /\ chip # GoodChip => (writes = {} /\ last.ret # 0)

(* probe bound to a chip that is not the GC2145 and wrote its flip         *)
(* register                                                                *)
C27_WroteToAnotherChip ==
  /\ last.op = "probe"
  /\ chip # GoodChip
  /\ lifecycle = "bound"
  /\ WroteFlipRegister

(***************************************************************************)
(* Vocabulary of the claims about sensor->lock                             *)
(***************************************************************************)
(* the operations that take sensor->lock *)
LockOps == {"enum_mbus_code", "enum_frame_size", "get_fmt", "set_fmt"}

(* thread t is between the mutex_lock and the mutex_unlock of its call *)
InLockedSection(t) ==
  /\ threads[t].op \in LockOps
  /\ threads[t].pc \notin {"none", "lock"}

(* thread t is an active set_fmt that has stored sensor->fmt and has        *)
(* register writes left to do                                              *)
SetFmtStoredNotWritten(t) ==
  /\ threads[t].op = "set_fmt"
  /\ threads[t].which = V4L2_SUBDEV_FORMAT_ACTIVE
  /\ threads[t].pc = "write"

(* this step is thread t's copy of the committed format in get_fmt *)
GetFmtReadsCommitted(t) ==
  /\ threads[t].op = "get_fmt"
  /\ threads[t].which = V4L2_SUBDEV_FORMAT_ACTIVE
  /\ threads[t].pc = "locked"
  /\ threads'[t].pc = "unlock"

(* C28: at most one of enum_mbus_code, enum_frame_size, get_fmt and        *)
(* set_fmt is inside its lock-protected section at any time, and a         *)
(* get_fmt of the active format never copies sensor->fmt while an active   *)
(* set_fmt of another thread is between its store of the format and the    *)
(* end of its register writes.                                             *)
C28_OneInLockedSection ==
  /\ [](\A t \in Threads, u \in Threads :
          InLockedSection(t) /\ InLockedSection(u) => t = u)
  /\ [][\A t \in Threads :
          GetFmtReadsCommitted(t) =>
            \A u \in Threads : ~SetFmtStoredNotWritten(u)]_vars

(* a get_fmt of the active format waits at mutex_lock while an active      *)
(* set_fmt of the other thread is in the middle of its register writes     *)
C28_GetFmtWaitsForSetFmt ==
  \E t \in Threads, u \in Threads :
    /\ threads[t].op = "get_fmt"
    /\ threads[t].which = V4L2_SUBDEV_FORMAT_ACTIVE
    /\ threads[t].pc = "lock"
    /\ SetFmtStoredNotWritten(u)
    /\ threads[u].k > 1
    /\ mutexes.sensor = u

(* thread t is inside a call of one of the operations that take the lock *)
InLockOp(t) == threads[t].op \in LockOps

(* this step is thread t's mutex_lock going through *)
Acquires(t) ==
  /\ InLockOp(t)
  /\ threads[t].pc = "lock"
  /\ threads'[t].pc # "lock"

(* C29: every operation that takes sensor->lock releases it on every       *)
(* return path, the error paths included, and never acquires it while      *)
(* holding it: the lock is held only by a thread inside the locked section *)
(* of its call, a mutex_lock never goes through for the thread that owns   *)
(* the mutex, and, the transport's calls returning, every call returns.    *)
C29_LockAlwaysReleased ==
  /\ [](mutexes.sensor # 0 => InLockedSection(mutexes.sensor))
  /\ [][\A t \in Threads : Acquires(t) => mutexes.sensor # t]_vars
  /\ \A t \in Threads : InLockOp(t) ~> ~InLockOp(t)

(* an active set_fmt whose register write failed has reached its           *)
(* mutex_unlock with the error to return, the other thread waiting for     *)
(* the lock                                                                *)
C29_ErrorPathAtUnlock ==
  \E t \in Threads, u \in Threads :
    /\ threads[t].op = "set_fmt"
    /\ threads[t].pc = "unlock"
    /\ threads[t].ret = -EREMOTEIO
    /\ mutexes.sensor = t
    /\ InLockOp(u)
    /\ threads[u].pc = "lock"

(***************************************************************************)
(* C30.  If the page-select write or the read of register 0x17 fails       *)
(* during a flip control, s_ctrl returns the transport's error, the failed *)
(* access is the last one of the call, and no write to 0x17 goes out: what *)
(* is written back to 0x17 is always a value the call has just read.       *)
(***************************************************************************)
C30_FailedReadNotWrittenBack ==
  (last.op = "s_ctrl" /\ last.ctrl \in FlipControls /\ AccessFailed({1, 2})) =>
    LET bus == BusEvents(trace) IN
    /\ last.ret = -EREMOTEIO
    /\ ~WroteFlipRegister
    /\ ~bus[Len(bus)].ok
    /\ \A j \in 1..(Len(bus) - 1) : bus[j].ok

(* the read of 0x17 failed in a vflip that was to set the bit: the call    *)
(* ended there with the error, register 0x17 as it was                     *)
C30_ReadOfFlipFailed ==
  /\ last.op = "s_ctrl"
  /\ last.ctrl = "V4L2_CID_VFLIP"
  /\ last.val = 1
  /\ last.ret = -EREMOTEIO
  /\ Len(BusEvents(trace)) = 2
  /\ BusEvents(trace)[2] = Event("r", GC2145_REG_FLIP, 0, FALSE)
  /\ ~WroteFlipRegister

(***************************************************************************)
(* Vocabulary of the claims about the catalogs                             *)
(***************************************************************************)
(* the format catalog's entry for a code it holds (codes are unique) *)
FormatEntry(code) ==
  gc2145_format_list[CHOOSE i \in 1..ARRAY_SIZE(gc2145_format_list) :
                       gc2145_format_list[i].code = code]

(* field order progressive, code of the catalog, colorspace of its entry *)
ProgressiveWithCatalogColorspace(f) ==
  /\ f.field = "NONE"
  /\ f.code \in CatalogCodes
  /\ f.colorspace = FormatEntry(f.code).colorspace

(* C31: every format a successful set_fmt returns, trial or active, and    *)
(* every format get_fmt returns for the active format, has field order     *)
(* progressive (V4L2_FIELD_NONE) and the colorspace of the format          *)
(* catalog's entry for its code.                                           *)
C31_ProgressiveCatalogColorspace ==
  /\ (last.op = "set_fmt" /\ last.ret = 0) =>
       ProgressiveWithCatalogColorspace(last.out)
  /\ (last.op = "get_fmt" /\ last.ret = 0 /\ last.which = V4L2_SUBDEV_FORMAT_ACTIVE) =>
       ProgressiveWithCatalogColorspace(last.out)

(* get_fmt returned the committed format after an active set_fmt of a code *)
(* whose catalog entry has the JPEG colorspace                             *)
C31_GotJpegColorspace ==
  /\ last.op = "get_fmt"
  /\ last.ret = 0
  /\ last.which = V4L2_SUBDEV_FORMAT_ACTIVE
  /\ last.out.code = "YVYU8_2X8"
  /\ last.out.colorspace = "JPEG"
  /\ last.out.field = "NONE"

(* the mode catalog's entries (C indices) whose active size is w x h *)
ModesOfSize(w, h) ==
  {i \in 0..(ARRAY_SIZE(gc2145_mode_list) - 1) :
     gc2145_mode_list[i + 1].hact = w /\ gc2145_mode_list[i + 1].vact = h}

(* C32: gc2145_find_mode with nearest = false returns NULL for every       *)
(* (width, height) that is not exactly the active size of a mode catalog   *)
(* entry, and that entry when it is; with nearest = true it always         *)
(* returns an entry of the catalog.                                        *)
C32_FindModeExactOrNearest ==
  last.op = "find_mode" =>
    IF last.nearest
    THEN last.mode \in 0..(ARRAY_SIZE(gc2145_mode_list) - 1)
    ELSE IF ModesOfSize(last.req.width, last.req.height) = {}
    THEN last.mode = NULL
    ELSE ModesOfSize(last.req.width, last.req.height) = {last.mode}

(* an exact match was demanded for 640x241, one line off the VGA entry:    *)
(* not found                                                               *)
C32_ExactMatchNotFound ==
  /\ last.op = "find_mode"
  /\ ~last.nearest
  /\ last.req.width = 640
  /\ last.req.height = 241
  /\ last.mode = NULL

C34_PoweredIffCounted ==
  lifecycle = "bound" => (pwdn = 0 <=> power_count > 0)

(* attach has succeeded: gc2145_check_chip_id left the power-down line     *)
(* deasserted and the clock running, and power_count is 0                  *)
C34_PoweredAfterProbeCountZero ==
  /\ lifecycle = "bound"
  /\ last.op = "probe"
  /\ last.ret = 0
  /\ has_pwdn
  /\ pwdn = 0
  /\ xclk
  /\ power_count = 0

(* register 0x84 holds the patch value of the committed format's code *)
OutputFormatIsCommitted == hw.outfmt = FormatPatch(fmt.code)[2]

(* C35: after a successful active set_fmt, register 0x84 (page 0) holds    *)
(* the committed format's patch value, and it goes on holding it in every  *)
(* later state until the next active set_fmt, whatever s_power calls       *)
(* happen in between: no step other than a set_fmt takes the value away.   *)
C35_OutputFormatSurvivesPower ==
  /\ [](last.op = "set_fmt" /\ last.ret = 0
          /\ last.which = V4L2_SUBDEV_FORMAT_ACTIVE => OutputFormatIsCommitted)
  /\ [][(lifecycle = "bound" /\ OutputFormatIsCommitted /\ last'.op # "set_fmt")
          => OutputFormatIsCommitted']_vars

(* s_power(1) has run the power-on sequence after a set_fmt committed      *)
(* YUYV: the reset pulse has put 0x84 back to its default, the committed   *)
(* format is still YUYV                                                    *)
C35_ResetLostOutputFormat ==
  /\ lifecycle = "bound"
  /\ last.op = "s_power"
  /\ last.on = 1
  /\ last.ret = 0
  /\ last.powered_on
  /\ fmt.code = "YUYV8_2X8"
  /\ hw.outfmt = HwResetOutfmt
  /\ FormatPatch(fmt.code)[2] = 2

(***************************************************************************)
(* C36.  enum_frame_size succeeds only for an index below the number of    *)
(* mode catalog entries (4): for every index >= 4 it fails with -EINVAL    *)
(* and hands out nothing, so gc2145_mode_list is never read past its end.  *)
(***************************************************************************)
C36_FrameSizeIndexWithinModes ==
  (last.op = "enum_frame_size" /\ last.index >= ARRAY_SIZE(gc2145_mode_list)) =>
    /\ last.ret = -EINVAL
    /\ last.fse = FseZero

(* index 4 with a catalog code: the call succeeded and handed out what     *)
(* lies in memory after the fourth entry of gc2145_mode_list               *)
C36_ReadPastModeList ==
  /\ last.op = "enum_frame_size"
  /\ last.pad = 0
  /\ last.index = ARRAY_SIZE(gc2145_mode_list)
  /\ last.req.code = "UYVY8_2X8"
  /\ last.ret = 0
  /\ last.fse.max_width = 48
  /\ last.fse.max_height = 85

(***************************************************************************)
(* C37.  For every entry of the format catalog, the value a successful     *)
(* active set_fmt writes to the output format register 0x84 (the entry's   *)
(* one-register patch, the last write of the call) equals the entry's      *)
(* output_fmt byte.                                                        *)
(***************************************************************************)
C37_PatchIsOutputFmt ==
  (last.op = "set_fmt" /\ last.ret = 0 /\ last.which = V4L2_SUBDEV_FORMAT_ACTIVE) =>
    LET bus == BusEvents(trace) IN
    /\ bus[Len(bus)].k = "w"
    /\ bus[Len(bus)].a = GC2145_REG_OUTPUT_FORMAT
    /\ bus[Len(bus)].v = FormatEntry(last.out.code).output_fmt
    /\ hw.outfmt = FormatEntry(fmt.code).output_fmt

(* an active set_fmt of RGB565_2X8_BE succeeded: its entry's output_fmt is *)
(* GC2145_OUTPUT_FMT_RGB (0x06), the patch wrote 0x18                      *)
C37_RgbPatchWroteDndd ==
  /\ last.op = "set_fmt"
  /\ last.ret = 0
  /\ last.which = V4L2_SUBDEV_FORMAT_ACTIVE
  /\ last.out.code = "RGB565_2X8_BE"
  /\ FormatEntry(last.out.code).output_fmt = 6
  /\ BusEvents(trace)[Len(BusEvents(trace))] = Event("w", GC2145_REG_OUTPUT_FORMAT, 24, TRUE)
  /\ hw.outfmt = 24

(***************************************************************************)
(* C38.  If the power-on sequence fails inside s_power (the power-down or  *)
(* the reset line is not there), s_power returns an error and power_count  *)
(* is left as it was; the sequence fails exactly when s_power runs it with *)
(* a line missing.                                                         *)
(***************************************************************************)
C38_FailedPowerOnKeepsCount ==
  [][last'.op = "s_power" =>
       LET fails == last'.powered_on /\ ~(has_pwdn /\ has_reset) IN
       /\ fails => (last'.ret # 0 /\ power_count' = power_count)
       /\ last'.ret # 0 => fails]_vars

(* s_power(1) with the reset line missing: the power-down line was pulsed, *)
(* the call returned an error, power_count is still 0                      *)
C38_ResetLineMissing ==
  /\ last.op = "s_power"
  /\ last.on = 1
  /\ last.powered_on
  /\ has_pwdn
  /\ ~has_reset
  /\ last.ret = -1
  /\ power_count = 0
  /\ Len(SignalEvents(trace)) = 2

=============================================================================
